---- MODULE Spec2Model ----
(***************************************************************************)
(* Video translation workflow: the store (videos, translation jobs, audio *)
(* generation jobs, final outputs), the record lifecycle handlers and the  *)
(* workflow status query with its status derivation.                       *)
(***************************************************************************)
EXTENDS Integers, Sequences, FiniteSets

VARIABLES videos, translationJobs, audioGenerationJobs, finalOutputs, res,
          inFlight

vars ==
  <<videos, translationJobs, audioGenerationJobs, finalOutputs, res, inFlight>>

store == <<videos, translationJobs, audioGenerationJobs, finalOutputs>>

(***************************************************************************)
(* Bounds of the model.                                                    *)
(***************************************************************************)
\* rows per table
MaxPerTable == 2
\* rows in the videos and the two job tables together, in the specifications
\* that build their store from a video
MaxRows == 3
\* creation instants
MaxClock == 3
\* fields given in one update input, where every field may be given
MaxProvided == 2
\* handler calls suspended at an await at once
MaxCalls == 2
\* status requests of the interval of a component outstanding at once
MaxLoading == 1
\* rows of a listed table
MaxListed == 3
\* the limit of a list query
MaxLimit == 2

(***************************************************************************)
(* Enumerations and values.                                                *)
(***************************************************************************)
uploadStatusEnum == {"pending", "uploaded", "processing", "failed"}

translationStatusEnum ==
  {"pending", "extracting_audio", "translating", "completed", "failed"}

audioGenerationStatusEnum == {"pending", "generating", "completed", "failed"}

\* SQL NULL in a nullable column, and a field left out of an update input.
\* The values of the columns that may hold them (paths, texts, instants,
\* durations in seconds) are written as strings.
NULL == "NULL"
UNDEFINED == "UNDEFINED"

\* the absent row: what a query that finds nothing yields
NoRow == [id |-> 0]

\* paths given to createFinalOutput
Paths == {"/outputs/a.mp4", "/outputs/b.mp4"}

(***************************************************************************)
(* Errors thrown by the handlers: the message template and the values      *)
(* interpolated into it.                                                   *)
(***************************************************************************)
Error(msg, a, b, c, status) ==
  [msg |-> msg, a |-> a, b |-> b, c |-> c, status |-> status]

NoError == Error("", 0, 0, 0, "")

\* the previous response has been delivered
Idle == res.op = "none"

\* the calls suspended at an await, and the await a call is suspended at
Calls == DOMAIN inFlight

Await(call, pc) == inFlight[call].pc = pc

Suspended(call, op, pc) == inFlight[call].op = op /\ inFlight[call].pc = pc

\* the calls of handlers among them.  alone tells of a call that no other
\* request has written to the store since the handler was invoked.
HandlerCalls == {call \in Calls : "alone" \in DOMAIN inFlight[call]}

CanSuspend == Cardinality(HandlerCalls) < MaxCalls

\* the calls in flight after a write of another request
Disturbed(calls) ==
  [call \in DOMAIN calls |->
     IF "alone" \in DOMAIN calls[call]
     THEN [calls[call] EXCEPT !.alone = FALSE]
     ELSE calls[call]]

\* the calls in flight without the one that returns or throws
Remove(call) ==
  [i \in 1..(Len(inFlight) - 1) |->
     IF i < call THEN inFlight[i] ELSE inFlight[i + 1]]

(***************************************************************************)
(* Tables.  A table is the sequence of its rows; serial ids make the id of *)
(* a row its position.                                                     *)
(***************************************************************************)
Rows(table) == {table[i] : i \in 1..Len(table)}

Count == Len(videos) + Len(translationJobs) + Len(audioGenerationJobs)

CanInsert(table) == Len(table) < MaxPerTable

\* the three tables together hold fewer than MaxRows rows: where a
\* specification bounds them together, a request that creates a row is
\* served and its row inserted while this holds
RoomForRow == Count < MaxRows

CanInsertOutput == Len(finalOutputs) < MaxPerTable

SetMax(S) == CHOOSE x \in S : \A y \in S : y <= x

\* the creation instant of the latest row of the job and output tables
LastCreatedAt ==
  LET ts == {r.created_at : r \in Rows(translationJobs)
                                  \cup Rows(audioGenerationJobs)
                                  \cup Rows(finalOutputs)}
  IN IF ts = {} THEN 0 ELSE SetMax(ts)

\* defaultNow(): the clock never runs backwards; an insert falls into the
\* instant of the latest row (the resolution of the clock) or into a later
\* one.  No insert is served once the last instant has been used.
Now ==
  IF LastCreatedAt < MaxClock
  THEN {t \in 1..MaxClock : t >= LastCreatedAt}
  ELSE {}

(***************************************************************************)
(* Queries of the handlers.                                                *)
(***************************************************************************)
\* select().from(table).where(eq(table.id, id))
FindById(table, id) ==
  IF id \in 1..Len(table) THEN table[id] ELSE NoRow

\* ascending instead of descending order
OrderByCreatedAtDescLimit1_asc(rows) ==
  IF rows = {} THEN {NoRow}
  ELSE {r \in rows : \A q \in rows : q.created_at >= r.created_at}

\* .orderBy(desc(created_at)).limit(1): the rows the database may put first.
\* Rows with equal created_at come in no defined order.
OrderByCreatedAtDescLimit1(rows) ==
  IF rows = {} THEN {NoRow}
  ELSE {r \in rows : \A q \in rows : q.created_at <= r.created_at}

TranslationJobsOfVideo(videoId) ==
  {r \in Rows(translationJobs) : r.video_id = videoId}

AudioJobsOfTranslationJob(translationJobId) ==
  {r \in Rows(audioGenerationJobs) : r.translation_job_id = translationJobId}

FinalOutputsOfVideo(videoId) ==
  {r \in Rows(finalOutputs) : r.video_id = videoId}

(***************************************************************************)
(* calculateWorkflowStatus                                                 *)
(***************************************************************************)
Status(overallStatus, progress) ==
  [overallStatus |-> overallStatus, progress |-> progress]

\* the upload phase looked at before the failed jobs
calculateWorkflowStatus_uploadPhaseFirst(video, translationJob, audioGenerationJob, finalOutput) ==
  IF finalOutput # NoRow THEN Status("completed", 100)
  ELSE IF video.upload_status = "failed" THEN Status("failed", 0)
  ELSE IF video.upload_status \in {"pending", "processing"}
    THEN Status("uploading", 10)
  ELSE IF translationJob # NoRow /\ translationJob.status = "failed"
    THEN Status("failed", 25)
  ELSE IF audioGenerationJob # NoRow /\ audioGenerationJob.status = "failed"
    THEN Status("failed", 75)
  ELSE IF translationJob = NoRow THEN Status("not_started", 25)
  ELSE IF translationJob.status # "completed" THEN Status("translating", 50)
  ELSE IF audioGenerationJob = NoRow THEN Status("translating", 75)
  ELSE IF audioGenerationJob.status # "completed"
    THEN Status("generating_audio", 85)
  ELSE Status("generating_audio", 95)

\* the failed states looked at before the final output
calculateWorkflowStatus_failedFirst(video, translationJob, audioGenerationJob, finalOutput) ==
  IF video.upload_status = "failed" THEN Status("failed", 0)
  ELSE IF translationJob # NoRow /\ translationJob.status = "failed"
    THEN Status("failed", 25)
  ELSE IF audioGenerationJob # NoRow /\ audioGenerationJob.status = "failed"
    THEN Status("failed", 75)
  ELSE IF finalOutput # NoRow THEN Status("completed", 100)
  ELSE IF video.upload_status \in {"pending", "processing"}
    THEN Status("uploading", 10)
  ELSE IF translationJob = NoRow THEN Status("not_started", 25)
  ELSE IF translationJob.status # "completed" THEN Status("translating", 50)
  ELSE IF audioGenerationJob = NoRow THEN Status("translating", 75)
  ELSE IF audioGenerationJob.status # "completed"
    THEN Status("generating_audio", 85)
  ELSE Status("generating_audio", 95)

\* the audio generation phase reported below the completed translation
calculateWorkflowStatus_audioPhaseAt65(video, translationJob, audioGenerationJob, finalOutput) ==
  IF finalOutput # NoRow THEN Status("completed", 100)
  ELSE IF video.upload_status = "failed" THEN Status("failed", 0)
  ELSE IF translationJob # NoRow /\ translationJob.status = "failed"
    THEN Status("failed", 25)
  ELSE IF audioGenerationJob # NoRow /\ audioGenerationJob.status = "failed"
    THEN Status("failed", 75)
  ELSE IF video.upload_status \in {"pending", "processing"}
    THEN Status("uploading", 10)
  ELSE IF video.upload_status = "uploaded" THEN
    IF translationJob = NoRow THEN Status("not_started", 25)
    ELSE IF translationJob.status \in {"pending", "extracting_audio", "translating"}
      THEN Status("translating", 50)
    ELSE IF translationJob.status = "completed" THEN
      IF audioGenerationJob = NoRow THEN Status("translating", 75)
      ELSE IF audioGenerationJob.status \in {"pending", "generating"}
        THEN Status("generating_audio", 65)
      ELSE IF audioGenerationJob.status = "completed"
        THEN Status("generating_audio", 95)
      ELSE Status("not_started", 0)
    ELSE Status("not_started", 0)
  ELSE Status("not_started", 0)

\* extracting_audio left out of the translation phase
calculateWorkflowStatus_extractingAudioMissed(video, translationJob, audioGenerationJob, finalOutput) ==
  IF finalOutput # NoRow THEN Status("completed", 100)
  ELSE IF video.upload_status = "failed" THEN Status("failed", 0)
  ELSE IF translationJob # NoRow /\ translationJob.status = "failed"
    THEN Status("failed", 25)
  ELSE IF audioGenerationJob # NoRow /\ audioGenerationJob.status = "failed"
    THEN Status("failed", 75)
  ELSE IF video.upload_status \in {"pending", "processing"}
    THEN Status("uploading", 10)
  ELSE IF video.upload_status = "uploaded" THEN
    IF translationJob = NoRow THEN Status("not_started", 25)
    ELSE IF translationJob.status \in {"pending", "translating"}
      THEN Status("translating", 50)
    ELSE IF translationJob.status = "completed" THEN
      IF audioGenerationJob = NoRow THEN Status("translating", 75)
      ELSE IF audioGenerationJob.status \in {"pending", "generating"}
        THEN Status("generating_audio", 85)
      ELSE IF audioGenerationJob.status = "completed"
        THEN Status("generating_audio", 95)
      ELSE Status("not_started", 0)
    ELSE Status("not_started", 0)
  ELSE Status("not_started", 0)

calculateWorkflowStatus(video, translationJob, audioGenerationJob, finalOutput) ==
  IF finalOutput # NoRow THEN Status("completed", 100)
  ELSE IF video.upload_status = "failed" THEN Status("failed", 0)
  ELSE IF translationJob # NoRow /\ translationJob.status = "failed"
    THEN Status("failed", 25)
  ELSE IF audioGenerationJob # NoRow /\ audioGenerationJob.status = "failed"
    THEN Status("failed", 75)
  ELSE IF video.upload_status \in {"pending", "processing"}
    THEN Status("uploading", 10)
  ELSE IF video.upload_status = "uploaded" THEN
    IF translationJob = NoRow THEN Status("not_started", 25)
    ELSE IF translationJob.status \in {"pending", "extracting_audio", "translating"}
      THEN Status("translating", 50)
    ELSE IF translationJob.status = "completed" THEN
      IF audioGenerationJob = NoRow THEN Status("translating", 75)
      ELSE IF audioGenerationJob.status \in {"pending", "generating"}
        THEN Status("generating_audio", 85)
      ELSE IF audioGenerationJob.status = "completed"
        THEN Status("generating_audio", 95)
      ELSE Status("not_started", 0)
    ELSE Status("not_started", 0)
  ELSE Status("not_started", 0)

(***************************************************************************)
(* getTranslationWorkflowStatus                                            *)
(***************************************************************************)
WorkflowStatus(videoId, video, translationJob, audioGenerationJob, finalOutput, status) ==
  [op |-> "getTranslationWorkflowStatus", videoId |-> videoId,
   video |-> video, translationJob |-> translationJob,
   audioGenerationJob |-> audioGenerationJob, finalOutput |-> finalOutput,
   overallStatus |-> status.overallStatus, progress |-> status.progress]

\* the not-found path answered like an uploaded video without a job
VideoNotFound_asUploaded(videoId) ==
  WorkflowStatus(videoId, NoRow, NoRow, NoRow, NoRow, Status("not_started", 25))

\* if (!video) return { ... }
VideoNotFound(videoId) ==
  WorkflowStatus(videoId, NoRow, NoRow, NoRow, NoRow, Status("not_started", 0))

\* await db.select().from(translationJobsTable)
\*   .where(eq(video_id, videoId)).orderBy(desc(created_at)).limit(1)
LatestTranslationJob(videoId) ==
  OrderByCreatedAtDescLimit1(TranslationJobsOfVideo(videoId))

\* the audio generation job looked for among those of every job of the video
LatestAudioGenerationJob_ofVideo(videoId, translationJob) ==
  OrderByCreatedAtDescLimit1(
    {r \in Rows(audioGenerationJobs) :
       \E j \in TranslationJobsOfVideo(videoId) : r.translation_job_id = j.id})

\* await db.select().from(audioGenerationJobsTable)
\*   .where(eq(translation_job_id, translationJob.id))
\*   .orderBy(desc(created_at)).limit(1)
LatestAudioGenerationJob(videoId, translationJob) ==
  OrderByCreatedAtDescLimit1(AudioJobsOfTranslationJob(translationJob.id))

\* the final output looked for among those of the latest translation job
LatestFinalOutput_ofLatestJob(videoId) ==
  OrderByCreatedAtDescLimit1(
    {r \in FinalOutputsOfVideo(videoId) :
       \E j \in LatestTranslationJob(videoId) : r.translation_job_id = j.id})

\* await db.select().from(finalOutputsTable)
\*   .where(eq(video_id, videoId)).orderBy(desc(created_at)).limit(1)
LatestFinalOutput(videoId) ==
  OrderByCreatedAtDescLimit1(FinalOutputsOfVideo(videoId))

\* the rows the three queries return when the store does not change between
\* them; the audio generation jobs are read only if (translationJob)
MostRecentRows(videoId) ==
  {<<tj, aj, fo>> \in
     LatestTranslationJob(videoId)
     \X (Rows(audioGenerationJobs) \cup {NoRow})
     \X LatestFinalOutput(videoId) :
     aj \in (IF tj = NoRow THEN {NoRow}
             ELSE LatestAudioGenerationJob(videoId, tj))}

\* the results a call returns when the store does not change during it
getTranslationWorkflowStatusResults(videoId) ==
  LET video == FindById(videos, videoId)
  IN IF video = NoRow
     THEN {VideoNotFound(videoId)}
     ELSE {WorkflowStatus(videoId, video, q[1], q[2], q[3],
                          calculateWorkflowStatus(video, q[1], q[2], q[3])) :
             q \in MostRecentRows(videoId)}

\* the response of the procedure; alone tells of the call that returned it
\* that no other request wrote to the store while it was suspended
Served(result, alone, awaited) ==
  [op |-> result.op, videoId |-> result.videoId, video |-> result.video,
   translationJob |-> result.translationJob,
   audioGenerationJob |-> result.audioGenerationJob,
   finalOutput |-> result.finalOutput,
   overallStatus |-> result.overallStatus, progress |-> result.progress,
   alone |-> alone, awaited |-> awaited]

\* the WorkflowStatus of a response
Result(response) ==
  WorkflowStatus(response.videoId, response.video, response.translationJob,
                 response.audioGenerationJob, response.finalOutput,
                 [overallStatus |-> response.overallStatus,
                  progress |-> response.progress])

\* The handler awaits each of its four selects; between two awaits the
\* router serves other requests.  A call suspended at an await holds the
\* rows it has read so far and, in instants, the answers recorded of the
\* stores there were since it began.  awaited tells of the call of the
\* request that the startTranslation of a component awaits.
StatusCall(videoId, video, awaited) ==
  [op |-> "getTranslationWorkflowStatus", pc |-> "translationJob",
   videoId |-> videoId, video |-> video, translationJob |-> NoRow,
   audioGenerationJob |-> NoRow, instants |-> {}, alone |-> TRUE,
   awaited |-> awaited]

\* the router has taken the request a startTranslation awaits and the
\* component has yet to take the response
AwaitedTaken ==
  \/ \E call \in Calls :
       "awaited" \in DOMAIN inFlight[call] /\ inFlight[call].awaited
  \/ res.op = "getTranslationWorkflowStatus" /\ res.awaited

\* The requests for the status of the video that may arrive: one that no
\* startTranslation awaits and, when the startTranslation of a component of
\* the video has sent its request and the router has not taken it, that
\* one.
Awaited(videoId) ==
  IF /\ ~AwaitedTaken
     /\ \E call \in Calls :
          /\ Suspended(call, "TranslationWorkflow", "loadWorkflowStatus")
          /\ inFlight[call].videoId = videoId
  THEN {FALSE, TRUE}
  ELSE {FALSE}

\* the video found is marked as processing
GetTranslationWorkflowStatus_marking(videoId) ==
  LET video == FindById(videos, videoId)
  IN IF video = NoRow
     THEN /\ Idle
          /\ res' = Served(VideoNotFound(videoId), TRUE, FALSE)
          /\ UNCHANGED <<store, inFlight>>
     ELSE /\ CanSuspend
          /\ inFlight' = Append(Disturbed(inFlight),
                                StatusCall(videoId, video, FALSE))
          /\ videos' = [i \in 1..Len(videos) |->
                          IF i = videoId
                          THEN [videos[i] EXCEPT !.upload_status = "processing"]
                          ELSE videos[i]]
          /\ UNCHANGED <<translationJobs, audioGenerationJobs, finalOutputs,
                         res>>

\* the router invokes the handler:
\* await db.select().from(videosTable).where(eq(id, videoId));
\* if (!video) return { ... }
GetTranslationWorkflowStatus(videoId) ==
  LET video == FindById(videos, videoId)
  IN \E awaited \in Awaited(videoId) :
       IF video = NoRow
       THEN /\ Idle
            /\ res' = Served(VideoNotFound(videoId), TRUE, awaited)
            /\ UNCHANGED <<store, inFlight>>
       ELSE /\ CanSuspend
            /\ inFlight' = Append(inFlight,
                                  StatusCall(videoId, video, awaited))
            /\ UNCHANGED <<store, res>>

\* await db.select().from(translationJobsTable)...limit(1); the audio
\* generation jobs are read only if (translationJob)
ReadTranslationJob(call) ==
  /\ Suspended(call, "getTranslationWorkflowStatus", "translationJob")
  /\ \E translationJob \in LatestTranslationJob(inFlight[call].videoId) :
       inFlight' =
         [inFlight EXCEPT
            ![call].pc = IF translationJob = NoRow THEN "finalOutput"
                         ELSE "audioGenerationJob",
            ![call].translationJob = translationJob]
  /\ UNCHANGED <<store, res>>

\* await db.select().from(audioGenerationJobsTable)...limit(1)
ReadAudioGenerationJob(call) ==
  /\ Suspended(call, "getTranslationWorkflowStatus", "audioGenerationJob")
  /\ \E audioGenerationJob \in
          LatestAudioGenerationJob(inFlight[call].videoId,
                                   inFlight[call].translationJob) :
       inFlight' =
         [inFlight EXCEPT ![call].pc = "finalOutput",
                          ![call].audioGenerationJob = audioGenerationJob]
  /\ UNCHANGED <<store, res>>

\* await db.select().from(finalOutputsTable)...limit(1), then
\* calculateWorkflowStatus on the four rows read and the return
ReadFinalOutput(call) ==
  /\ Suspended(call, "getTranslationWorkflowStatus", "finalOutput")
  /\ Idle
  /\ \E finalOutput \in LatestFinalOutput(inFlight[call].videoId) :
       res' =
         Served(
           WorkflowStatus(
             inFlight[call].videoId, inFlight[call].video,
             inFlight[call].translationJob,
             inFlight[call].audioGenerationJob, finalOutput,
             calculateWorkflowStatus(
               inFlight[call].video, inFlight[call].translationJob,
               inFlight[call].audioGenerationJob, finalOutput)),
           inFlight[call].alone, inFlight[call].awaited)
  /\ inFlight' = Remove(call)
  /\ UNCHANGED store

\* the store as it is now has been recorded for the call
Observed(call) ==
  IF inFlight[call].op # "getTranslationWorkflowStatus"
  THEN TRUE
  ELSE getTranslationWorkflowStatusResults(inFlight[call].videoId)
         \subseteq inFlight[call].instants

\* the call is suspended while the store is as it is now
Observe(call) ==
  /\ ~Observed(call)
  /\ inFlight' =
       [inFlight EXCEPT ![call].instants =
          @ \cup getTranslationWorkflowStatusResults(inFlight[call].videoId)]
  /\ UNCHANGED <<store, res>>

(***************************************************************************)
(* getFinalOutputByVideoId                                                 *)
(***************************************************************************)
\* results[0] of select().from(finalOutputsTable).where(eq(video_id, videoId))
\* or null; the query has no ORDER BY, so that any row of the video may come
\* first
getFinalOutputByVideoIdResults(videoId) ==
  IF FinalOutputsOfVideo(videoId) = {}
  THEN {NoRow}
  ELSE FinalOutputsOfVideo(videoId)

GetFinalOutputByVideoId(videoId) ==
  /\ Idle
  /\ UNCHANGED inFlight
  /\ res' \in {[op |-> "getFinalOutputByVideoId", videoId |-> videoId,
                row |-> r] : r \in getFinalOutputByVideoIdResults(videoId)}
  /\ UNCHANGED store

(***************************************************************************)
(* createVideo                                                             *)
(***************************************************************************)
NewVideo(input) ==
  [id |-> Len(videos) + 1,
   filename |-> input.filename,
   original_filename |-> input.original_filename,
   file_path |-> input.file_path,
   file_size |-> input.file_size,
   duration |-> input.duration,
   format |-> input.format,
   upload_status |-> "pending"]

CreateVideo(input) ==
  /\ Idle
  /\ inFlight' = Disturbed(inFlight)
  /\ CanInsert(videos)
  /\ videos' = Append(videos, NewVideo(input))
  /\ res' = [op |-> "createVideo", input |-> input, error |-> NoError,
             row |-> NewVideo(input)]
  /\ UNCHANGED <<translationJobs, audioGenerationJobs, finalOutputs>>

(***************************************************************************)
(* updateVideoStatus                                                       *)
(***************************************************************************)
\* a field given as null left alone, like a field left out
SetProvided_nullSkipped(row, input, fields) ==
  [f \in DOMAIN row |->
     IF f \in fields /\ input[f] # UNDEFINED /\ input[f] # NULL
     THEN input[f] ELSE row[f]]

\* if (input.f !== undefined) updateData.f = input.f, then .set(updateData)
SetProvided(row, input, fields) ==
  [f \in DOMAIN row |->
     IF f \in fields /\ input[f] # UNDEFINED THEN input[f] ELSE row[f]]

\* a handler that looks the video up and stores the fields given
UpdateVideoStatus_persisted(input) ==
  /\ Idle
  /\ IF FindById(videos, input.id) = NoRow
     THEN /\ res' = [op |-> "updateVideoStatus", input |-> input,
                     error |-> Error("Video with id ${id} not found",
                                     input.id, 0, 0, ""),
                     row |-> NoRow]
          /\ UNCHANGED <<store, inFlight>>
     ELSE LET row == SetProvided(FindById(videos, input.id), input,
                                 {"upload_status", "duration", "format"})
          IN /\ videos' = [videos EXCEPT ![input.id] = row]
             /\ inFlight' = Disturbed(inFlight)
             /\ res' = [op |-> "updateVideoStatus", input |-> input,
                        error |-> NoError, row |-> row]
             /\ UNCHANGED <<translationJobs, audioGenerationJobs,
                            finalOutputs>>

\* x || otherwise: undefined, null and the empty string are falsy (a duration
\* is a positive number)
OrElse(x, otherwise) == IF x \in {UNDEFINED, NULL, ""} THEN otherwise ELSE x

\* the record the handler returns: made up from the input, no row is read (the
\* timestamps are left out, as in the video rows)
PlaceholderVideo(input) ==
  [id |-> input.id,
   filename |-> "placeholder.mp4",
   original_filename |-> "user_video.mp4",
   file_path |-> "/uploads/placeholder.mp4",
   file_size |-> 1024,
   duration |-> OrElse(input.duration, NULL),
   format |-> OrElse(input.format, "mp4"),
   upload_status |-> input.upload_status]

\* The handler is a placeholder: it queries and writes no table and never
\* throws, whether or not a video has the id.
UpdateVideoStatus(input) ==
  /\ Idle
  /\ res' = [op |-> "updateVideoStatus", input |-> input, error |-> NoError,
             row |-> PlaceholderVideo(input)]
  /\ UNCHANGED <<store, inFlight>>

(***************************************************************************)
(* createTranslationJob                                                    *)
(***************************************************************************)
\* only a failed upload is refused
createTranslationJobError_failedOnly(input) ==
  LET existingVideo == FindById(videos, input.video_id)
  IN IF existingVideo = NoRow
     THEN Error("Video with ID ${id} not found", input.video_id, 0, 0, "")
     ELSE IF existingVideo.upload_status = "failed"
     THEN Error("Video must be uploaded before creating translation job. Current status: ${status}",
                0, 0, 0, existingVideo.upload_status)
     ELSE NoError

createTranslationJobError(input) ==
  LET existingVideo == FindById(videos, input.video_id)
  IN IF existingVideo = NoRow
     THEN Error("Video with ID ${id} not found", input.video_id, 0, 0, "")
     ELSE IF existingVideo.upload_status # "uploaded"
     THEN Error("Video must be uploaded before creating translation job. Current status: ${status}",
                0, 0, 0, existingVideo.upload_status)
     ELSE NoError

NewTranslationJob(input, now) ==
  [id |-> Len(translationJobs) + 1,
   video_id |-> input.video_id,
   source_language |-> input.source_language,
   target_language |-> input.target_language,
   status |-> "pending",
   original_audio_path |-> NULL,
   translated_text |-> NULL,
   error_message |-> NULL,
   started_at |-> NULL,
   completed_at |-> NULL,
   created_at |-> now]

\* the call suspended at the insert
InsertCall(op, input) ==
  [op |-> op, pc |-> "insert", input |-> input, alone |-> TRUE]

\* the router invokes the handler:
\* await db.select().from(videosTable).where(eq(id, input.video_id)), and
\* the two throws
CreateTranslationJob(input) ==
  LET error == createTranslationJobError(input)
  IN IF error # NoError
     THEN /\ Idle
          /\ res' = [op |-> "createTranslationJob", input |-> input,
                     error |-> error, row |-> NoRow, alone |-> TRUE]
          /\ UNCHANGED <<store, inFlight>>
     ELSE /\ CanSuspend
          /\ CanInsert(translationJobs)
          /\ inFlight' =
               Append(inFlight, InsertCall("createTranslationJob", input))
          /\ UNCHANGED <<store, res>>

\* await db.insert(translationJobsTable).values({...}).returning();
\* return result[0]
InsertTranslationJob(call) ==
  /\ Suspended(call, "createTranslationJob", "insert")
  /\ Idle
  /\ CanInsert(translationJobs)
  /\ \E now \in Now :
       LET row == NewTranslationJob(inFlight[call].input, now)
       IN /\ translationJobs' = Append(translationJobs, row)
          /\ res' = [op |-> "createTranslationJob",
                     input |-> inFlight[call].input, error |-> NoError,
                     row |-> row, alone |-> inFlight[call].alone]
  /\ inFlight' = Disturbed(Remove(call))
  /\ UNCHANGED <<videos, audioGenerationJobs, finalOutputs>>

(***************************************************************************)
(* createAudioGenerationJob                                                *)
(***************************************************************************)
\* only a failed translation job is refused
createAudioGenerationJobError_failedOnly(input) ==
  LET translationJob == FindById(translationJobs, input.translation_job_id)
  IN IF translationJob = NoRow
     THEN Error("Translation job with ID ${id} not found",
                input.translation_job_id, 0, 0, "")
     ELSE IF translationJob.status = "failed"
     THEN Error("Translation job must be completed before audio generation. Current status: ${status}",
                0, 0, 0, translationJob.status)
     ELSE NoError

createAudioGenerationJobError(input) ==
  LET translationJob == FindById(translationJobs, input.translation_job_id)
  IN IF translationJob = NoRow
     THEN Error("Translation job with ID ${id} not found",
                input.translation_job_id, 0, 0, "")
     ELSE IF translationJob.status # "completed"
     THEN Error("Translation job must be completed before audio generation. Current status: ${status}",
                0, 0, 0, translationJob.status)
     ELSE NoError

NewAudioGenerationJob(input, now) ==
  [id |-> Len(audioGenerationJobs) + 1,
   translation_job_id |-> input.translation_job_id,
   status |-> "pending",
   generated_audio_path |-> NULL,
   voice_cloned |-> input.voice_cloned,
   error_message |-> NULL,
   started_at |-> NULL,
   completed_at |-> NULL,
   created_at |-> now]

\* the router invokes the handler:
\* await db.select().from(translationJobsTable)
\*   .where(eq(id, input.translation_job_id)), and the two throws
CreateAudioGenerationJob(input) ==
  LET error == createAudioGenerationJobError(input)
  IN IF error # NoError
     THEN /\ Idle
          /\ res' = [op |-> "createAudioGenerationJob", input |-> input,
                     error |-> error, row |-> NoRow, alone |-> TRUE]
          /\ UNCHANGED <<store, inFlight>>
     ELSE /\ CanSuspend
          /\ CanInsert(audioGenerationJobs)
          /\ inFlight' =
               Append(inFlight, InsertCall("createAudioGenerationJob", input))
          /\ UNCHANGED <<store, res>>

\* await db.insert(audioGenerationJobsTable).values({...}).returning();
\* return result[0]
InsertAudioGenerationJob(call) ==
  /\ Suspended(call, "createAudioGenerationJob", "insert")
  /\ Idle
  /\ CanInsert(audioGenerationJobs)
  /\ \E now \in Now :
       LET row == NewAudioGenerationJob(inFlight[call].input, now)
       IN /\ audioGenerationJobs' = Append(audioGenerationJobs, row)
          /\ res' = [op |-> "createAudioGenerationJob",
                     input |-> inFlight[call].input, error |-> NoError,
                     row |-> row, alone |-> inFlight[call].alone]
  /\ inFlight' = Disturbed(Remove(call))
  /\ UNCHANGED <<videos, translationJobs, finalOutputs>>

(***************************************************************************)
(* createFinalOutput                                                       *)
(***************************************************************************)
\* the translation job looked up by its id alone
FindTranslationJobOfVideo_byIdOnly(id, videoId) ==
  FindById(translationJobs, id)

\* where(and(eq(id, translation_job_id), eq(video_id, video_id)))
FindTranslationJobOfVideo(id, videoId) ==
  LET r == FindById(translationJobs, id)
  IN IF r # NoRow /\ r.video_id = videoId THEN r ELSE NoRow

\* where(and(eq(id, audio_generation_job_id), eq(translation_job_id, ...)))
FindAudioJobOfTranslationJob(id, translationJobId) ==
  LET r == FindById(audioGenerationJobs, id)
  IN IF r # NoRow /\ r.translation_job_id = translationJobId THEN r ELSE NoRow

\* the path compared as well
ExistingOutput_samePath(input) ==
  {r \in Rows(finalOutputs) :
     /\ r.video_id = input.video_id
     /\ r.translation_job_id = input.translation_job_id
     /\ r.audio_generation_job_id = input.audio_generation_job_id
     /\ r.final_video_path = input.final_video_path}

\* one final output per video
ExistingOutput_perVideo(input) ==
  {r \in Rows(finalOutputs) : r.video_id = input.video_id}

\* the final outputs of the identical triple
ExistingOutput(input) ==
  {r \in Rows(finalOutputs) :
     /\ r.video_id = input.video_id
     /\ r.translation_job_id = input.translation_job_id
     /\ r.audio_generation_job_id = input.audio_generation_job_id}

\* the translation job looked up before the upload status is checked
createFinalOutputError_jobBeforeStatus(pc, input) ==
  LET video == FindById(videos, input.video_id)
      translationJob ==
        FindTranslationJobOfVideo(input.translation_job_id, input.video_id)
      audioGenerationJob ==
        FindAudioJobOfTranslationJob(input.audio_generation_job_id,
                                     input.translation_job_id)
  IN CASE pc = "video" ->
        (IF video = NoRow
        THEN Error("Video with id ${id} not found", input.video_id, 0, 0, "")
        ELSE IF translationJob = NoRow
        THEN Error("Translation job with id ${id} not found for video ${video_id}",
                input.translation_job_id, input.video_id, 0, "")
        ELSE IF video.upload_status # "uploaded"
        THEN Error("Video with id ${id} is not uploaded (status: ${status})",
                input.video_id, 0, 0, video.upload_status)
        ELSE NoError)
     [] pc = "translationJob" ->
        (IF translationJob.status # "completed"
        THEN Error("Translation job with id ${id} is not completed (status: ${status})",
                input.translation_job_id, 0, 0, translationJob.status)
        ELSE NoError)
     [] pc = "audioGenerationJob" ->
        (IF audioGenerationJob = NoRow
        THEN Error("Audio generation job with id ${id} not found for translation job ${translation_job_id}",
                input.audio_generation_job_id, input.translation_job_id, 0, "")
        ELSE IF audioGenerationJob.status # "completed"
        THEN Error("Audio generation job with id ${id} is not completed (status: ${status})",
                input.audio_generation_job_id, 0, 0, audioGenerationJob.status)
        ELSE NoError)
     [] pc = "existingOutput" ->
        (IF ExistingOutput(input) # {}
        THEN Error("Final output already exists for video ${video_id}, translation job ${translation_job_id}, and audio generation job ${audio_generation_job_id}",
                input.video_id, input.translation_job_id,
                input.audio_generation_job_id, "")
        ELSE NoError)

\* the jobs looked up by id alone, the owner compared afterwards
createFinalOutputError_ownerComparedAfterwards(pc, input) ==
  LET video == FindById(videos, input.video_id)
      translationJob == FindById(translationJobs, input.translation_job_id)
      audioGenerationJob ==
        FindById(audioGenerationJobs, input.audio_generation_job_id)
  IN CASE pc = "video" ->
        (IF video = NoRow
        THEN Error("Video with id ${id} not found", input.video_id, 0, 0, "")
        ELSE IF video.upload_status # "uploaded"
        THEN Error("Video with id ${id} is not uploaded (status: ${status})",
                input.video_id, 0, 0, video.upload_status)
        ELSE NoError)
     [] pc = "translationJob" ->
        (IF translationJob = NoRow
        THEN Error("Translation job with id ${id} not found for video ${video_id}",
                input.translation_job_id, input.video_id, 0, "")
        ELSE IF translationJob.video_id # input.video_id
        THEN Error("Translation job with id ${id} does not belong to video ${video_id}",
                input.translation_job_id, input.video_id, 0, "")
        ELSE IF translationJob.status # "completed"
        THEN Error("Translation job with id ${id} is not completed (status: ${status})",
                input.translation_job_id, 0, 0, translationJob.status)
        ELSE NoError)
     [] pc = "audioGenerationJob" ->
        (IF audioGenerationJob = NoRow
        THEN Error("Audio generation job with id ${id} not found for translation job ${translation_job_id}",
                input.audio_generation_job_id, input.translation_job_id, 0, "")
        ELSE IF audioGenerationJob.translation_job_id # input.translation_job_id
        THEN Error("Audio generation job with id ${id} does not belong to translation job ${translation_job_id}",
                input.audio_generation_job_id, input.translation_job_id, 0, "")
        ELSE IF audioGenerationJob.status # "completed"
        THEN Error("Audio generation job with id ${id} is not completed (status: ${status})",
                input.audio_generation_job_id, 0, 0, audioGenerationJob.status)
        ELSE NoError)
     [] pc = "existingOutput" ->
        (IF ExistingOutput(input) # {}
        THEN Error("Final output already exists for video ${video_id}, translation job ${translation_job_id}, and audio generation job ${audio_generation_job_id}",
                input.video_id, input.translation_job_id,
                input.audio_generation_job_id, "")
        ELSE NoError)

\* the status of the audio generation job left unchecked
createFinalOutputError_audioStatusUnchecked(pc, input) ==
  LET video == FindById(videos, input.video_id)
      translationJob ==
        FindTranslationJobOfVideo(input.translation_job_id, input.video_id)
      audioGenerationJob ==
        FindAudioJobOfTranslationJob(input.audio_generation_job_id,
                                     input.translation_job_id)
  IN CASE pc = "video" ->
        (IF video = NoRow
        THEN Error("Video with id ${id} not found", input.video_id, 0, 0, "")
        ELSE IF video.upload_status # "uploaded"
        THEN Error("Video with id ${id} is not uploaded (status: ${status})",
                input.video_id, 0, 0, video.upload_status)
        ELSE NoError)
     [] pc = "translationJob" ->
        (IF translationJob = NoRow
        THEN Error("Translation job with id ${id} not found for video ${video_id}",
                input.translation_job_id, input.video_id, 0, "")
        ELSE IF translationJob.status # "completed"
        THEN Error("Translation job with id ${id} is not completed (status: ${status})",
                input.translation_job_id, 0, 0, translationJob.status)
        ELSE NoError)
     [] pc = "audioGenerationJob" ->
        (IF audioGenerationJob = NoRow
        THEN Error("Audio generation job with id ${id} not found for translation job ${translation_job_id}",
                input.audio_generation_job_id, input.translation_job_id, 0, "")
        ELSE NoError)
     [] pc = "existingOutput" ->
        (IF ExistingOutput(input) # {}
        THEN Error("Final output already exists for video ${video_id}, translation job ${translation_job_id}, and audio generation job ${audio_generation_job_id}",
                input.video_id, input.translation_job_id,
                input.audio_generation_job_id, "")
        ELSE NoError)

\* the error thrown after the select the call awaits at pc, from the rows
\* that select returns; NoError when the handler goes on to its next await
createFinalOutputError(pc, input) ==
  LET video == FindById(videos, input.video_id)
      translationJob ==
        FindTranslationJobOfVideo(input.translation_job_id, input.video_id)
      audioGenerationJob ==
        FindAudioJobOfTranslationJob(input.audio_generation_job_id,
                                     input.translation_job_id)
  IN CASE pc = "video" ->
        (IF video = NoRow
        THEN Error("Video with id ${id} not found", input.video_id, 0, 0, "")
        ELSE IF video.upload_status # "uploaded"
        THEN Error("Video with id ${id} is not uploaded (status: ${status})",
                input.video_id, 0, 0, video.upload_status)
        ELSE NoError)
     [] pc = "translationJob" ->
        (IF translationJob = NoRow
        THEN Error("Translation job with id ${id} not found for video ${video_id}",
                input.translation_job_id, input.video_id, 0, "")
        ELSE IF translationJob.status # "completed"
        THEN Error("Translation job with id ${id} is not completed (status: ${status})",
                input.translation_job_id, 0, 0, translationJob.status)
        ELSE NoError)
     [] pc = "audioGenerationJob" ->
        (IF audioGenerationJob = NoRow
        THEN Error("Audio generation job with id ${id} not found for translation job ${translation_job_id}",
                input.audio_generation_job_id, input.translation_job_id, 0, "")
        ELSE IF audioGenerationJob.status # "completed"
        THEN Error("Audio generation job with id ${id} is not completed (status: ${status})",
                input.audio_generation_job_id, 0, 0, audioGenerationJob.status)
        ELSE NoError)
     [] pc = "existingOutput" ->
        (IF ExistingOutput(input) # {}
        THEN Error("Final output already exists for video ${video_id}, translation job ${translation_job_id}, and audio generation job ${audio_generation_job_id}",
                input.video_id, input.translation_job_id,
                input.audio_generation_job_id, "")
        ELSE NoError)

NewFinalOutput(input, now) ==
  [id |-> Len(finalOutputs) + 1,
   video_id |-> input.video_id,
   translation_job_id |-> input.translation_job_id,
   audio_generation_job_id |-> input.audio_generation_job_id,
   final_video_path |-> input.final_video_path,
   created_at |-> now]

\* The handler awaits each of its four selects and its insert; between two
\* awaits the router serves other requests.  A call suspended at an await
\* holds its input and the query it awaits next.
FinalOutputCall(input) ==
  [op |-> "createFinalOutput", pc |-> "translationJob", input |-> input,
   alone |-> TRUE]

\* the router invokes the handler:
\* await db.select().from(videosTable) and the two checks of the video
CreateFinalOutput(input) ==
  LET error == createFinalOutputError("video", input)
  IN IF error # NoError
     THEN /\ Idle
          /\ res' = [op |-> "createFinalOutput", input |-> input,
                     error |-> error, row |-> NoRow, alone |-> TRUE]
          /\ UNCHANGED <<store, inFlight>>
     ELSE /\ CanSuspend
          /\ inFlight' = Append(inFlight, FinalOutputCall(input))
          /\ UNCHANGED <<store, res>>

\* the checks passed, the next await reached
Continue(call, pc) ==
  /\ inFlight' = [inFlight EXCEPT ![call].pc = pc]
  /\ UNCHANGED <<store, res>>

\* throw new Error(...), logged and rethrown by the catch
Throw(call, error) ==
  /\ Idle
  /\ res' = [op |-> "createFinalOutput", input |-> inFlight[call].input,
             error |-> error, row |-> NoRow, alone |-> inFlight[call].alone]
  /\ inFlight' = Remove(call)
  /\ UNCHANGED store

\* await db.select().from(translationJobsTable) and its two checks
SelectTranslationJob(call) ==
  /\ Suspended(call, "createFinalOutput", "translationJob")
  /\ LET error == createFinalOutputError("translationJob", inFlight[call].input)
     IN IF error # NoError
        THEN Throw(call, error)
        ELSE Continue(call, "audioGenerationJob")

\* await db.select().from(audioGenerationJobsTable) and its two checks
SelectAudioGenerationJob(call) ==
  /\ Suspended(call, "createFinalOutput", "audioGenerationJob")
  /\ LET error ==
           createFinalOutputError("audioGenerationJob", inFlight[call].input)
     IN IF error # NoError
        THEN Throw(call, error)
        ELSE Continue(call, "existingOutput")

\* await db.select().from(finalOutputsTable) and the check of its length
SelectExistingOutput(call) ==
  /\ Suspended(call, "createFinalOutput", "existingOutput")
  /\ LET error == createFinalOutputError("existingOutput", inFlight[call].input)
     IN IF error # NoError
        THEN Throw(call, error)
        ELSE Continue(call, "insert")

\* await db.insert(finalOutputsTable).values(...).returning(); the table has
\* no constraint that could refuse the row; return result[0]
InsertFinalOutput(call) ==
  /\ Suspended(call, "createFinalOutput", "insert")
  /\ Idle
  /\ CanInsertOutput
  /\ \E now \in Now :
       LET row == NewFinalOutput(inFlight[call].input, now)
       IN /\ finalOutputs' = Append(finalOutputs, row)
          /\ res' = [op |-> "createFinalOutput",
                     input |-> inFlight[call].input, error |-> NoError,
                     row |-> row, alone |-> inFlight[call].alone]
  /\ inFlight' = Disturbed(Remove(call))
  /\ UNCHANGED <<videos, translationJobs, audioGenerationJobs>>

(***************************************************************************)
(* updateTranslationJob, updateAudioGenerationJob                          *)
(***************************************************************************)
TranslationJobUpdateFields ==
  {"status", "original_audio_path", "translated_text", "error_message",
   "started_at", "completed_at"}

\* the fields put into updateData
Provided(input, fields) == {f \in fields : input[f] # UNDEFINED}

\* .set(updateData) throws when updateData has no value; otherwise the update
\* runs and the result is empty when no row has the id
updateTranslationJobError(input) ==
  IF Provided(input, TranslationJobUpdateFields) = {}
  THEN Error("No values to set", 0, 0, 0, "")
  ELSE IF FindById(translationJobs, input.id) = NoRow
  THEN Error("Translation job with id ${id} not found", input.id, 0, 0, "")
  ELSE NoError

UpdateTranslationJob(input) ==
  /\ Idle
  /\ LET error == updateTranslationJobError(input)
         row == SetProvided(FindById(translationJobs, input.id), input,
                            TranslationJobUpdateFields)
     IN IF error # NoError
        THEN /\ res' = [op |-> "updateTranslationJob", input |-> input,
                        error |-> error, row |-> NoRow]
             /\ UNCHANGED <<store, inFlight>>
        ELSE /\ translationJobs' = [translationJobs EXCEPT ![input.id] = row]
             /\ res' = [op |-> "updateTranslationJob", input |-> input,
                        error |-> NoError, row |-> row]
             /\ inFlight' = Disturbed(inFlight)
             /\ UNCHANGED <<videos, audioGenerationJobs, finalOutputs>>

AudioGenerationJobUpdateFields ==
  {"status", "generated_audio_path", "error_message", "started_at",
   "completed_at"}

updateAudioGenerationJobError(input) ==
  IF Provided(input, AudioGenerationJobUpdateFields) = {}
  THEN Error("No values to set", 0, 0, 0, "")
  ELSE IF FindById(audioGenerationJobs, input.id) = NoRow
  THEN Error("Audio generation job with id ${id} not found", input.id, 0, 0, "")
  ELSE NoError

UpdateAudioGenerationJob(input) ==
  /\ Idle
  /\ LET error == updateAudioGenerationJobError(input)
         row == SetProvided(FindById(audioGenerationJobs, input.id), input,
                            AudioGenerationJobUpdateFields)
     IN IF error # NoError
        THEN /\ res' = [op |-> "updateAudioGenerationJob", input |-> input,
                        error |-> error, row |-> NoRow]
             /\ UNCHANGED <<store, inFlight>>
        ELSE /\ audioGenerationJobs' = [audioGenerationJobs EXCEPT ![input.id] = row]
             /\ res' = [op |-> "updateAudioGenerationJob", input |-> input,
                        error |-> NoError, row |-> row]
             /\ inFlight' = Disturbed(inFlight)
             /\ UNCHANGED <<videos, translationJobs, finalOutputs>>

(***************************************************************************)
(* getVideos, getTranslationJobs                                           *)
(***************************************************************************)
\* .orderBy(desc(created_at)): the orders the database may return the rows
\* in.  Rows with equal created_at come in no defined order, and two
\* queries need not order them alike.
OrderByCreatedAtDesc(rows) ==
  {s \in [1..Cardinality(rows) -> rows] :
     /\ \A i, j \in 1..Cardinality(rows) : i # j => s[i] # s[j]
     /\ \A i, j \in 1..Cardinality(rows) :
          i < j => s[i].created_at >= s[j].created_at}

\* .limit(limit).offset(offset)
LimitOffset(s, limit, offset) ==
  [i \in 1..(IF Len(s) - offset > limit THEN limit
             ELSE IF Len(s) > offset THEN Len(s) - offset ELSE 0) |->
     s[offset + i]]

\* a filter field of the query is given
Has(input, field) == field \in DOMAIN input

\* if (query.status) conditions.push(eq(upload_status, query.status))
getVideosConditions(input) ==
  {r \in Rows(videos) :
     Has(input, "status") => r.upload_status = input.status}

\* the pages the call may return on the current store
getVideosResults(input) ==
  {LimitOffset(s, input.limit, input.offset) :
     s \in OrderByCreatedAtDesc(getVideosConditions(input))}

GetVideos(input) ==
  /\ Idle
  /\ UNCHANGED inFlight
  /\ \E rows \in getVideosResults(input) :
       res' = [op |-> "getVideos", input |-> input, rows |-> rows]
  /\ UNCHANGED store

\* conditions.push(eq(video_id, ...)), conditions.push(eq(status, ...))
getTranslationJobsConditions(input) ==
  {r \in Rows(translationJobs) :
     /\ Has(input, "video_id") => r.video_id = input.video_id
     /\ Has(input, "status") => r.status = input.status}

getTranslationJobsResults(input) ==
  {LimitOffset(s, input.limit, input.offset) :
     s \in OrderByCreatedAtDesc(getTranslationJobsConditions(input))}

GetTranslationJobs(input) ==
  /\ Idle
  /\ UNCHANGED inFlight
  /\ \E rows \in getTranslationJobsResults(input) :
       res' = [op |-> "getTranslationJobs", input |-> input, rows |-> rows]
  /\ UNCHANGED store

(***************************************************************************)
(* The TranslationWorkflow component of the client.  inFlight[client] is   *)
(* the state of the component and the position of its startTranslation;    *)
(* a response of the server for the component is in res until the          *)
(* component takes it.                                                     *)
(***************************************************************************)
\* useState<WorkflowStatus | null>(null)
NoStatus == [op |-> "none"]

\* the languages offered by the two Selects
Languages == {"en", "es"}

\* no startTranslation is running
NoRender == [sourceLanguage |-> "", targetLanguage |-> "", voiceCloned |-> FALSE]

\* the state of the component after its first render; render holds the
\* sourceLanguage, targetLanguage and voiceCloned of the render whose
\* startTranslation is running
TranslationWorkflow(videoId) ==
  [op |-> "TranslationWorkflow", pc |-> "idle", videoId |-> videoId, sourceLanguage |-> "en",
   targetLanguage |-> "es", voiceCloned |-> TRUE,
   workflowStatus |-> NoStatus, isStartingTranslation |-> FALSE,
   error |-> NULL, translationJob |-> NoRow, render |-> NoRender]

isTranslationInProgress(component) ==
  /\ component.workflowStatus # NoStatus
  /\ component.workflowStatus.overallStatus
       \in {"translating", "generating_audio", "uploading"}

canStartTranslation(component) ==
  /\ component.workflowStatus # NoStatus
  /\ component.workflowStatus.video # NoRow
  /\ component.workflowStatus.video.upload_status = "uploaded"
  /\ component.workflowStatus.overallStatus = "not_started"

\* <Select value={sourceLanguage} onValueChange={(value) =>
\* setSourceLanguage(value)}>: another language is selected
SetSourceLanguage(client, value) ==
  /\ inFlight[client].op = "TranslationWorkflow"
  /\ inFlight[client].sourceLanguage # value
  /\ inFlight' = [inFlight EXCEPT ![client].sourceLanguage = value]
  /\ UNCHANGED <<store, res>>

\* <Select value={targetLanguage} onValueChange={(value) =>
\* setTargetLanguage(value)}>
SetTargetLanguage(client, value) ==
  /\ inFlight[client].op = "TranslationWorkflow"
  /\ inFlight[client].targetLanguage # value
  /\ inFlight' = [inFlight EXCEPT ![client].targetLanguage = value]
  /\ UNCHANGED <<store, res>>

\* <Switch checked={voiceCloned} onCheckedChange={setVoiceCloned} />
SetVoiceCloned(client, checked) ==
  /\ inFlight[client].op = "TranslationWorkflow"
  /\ inFlight[client].voiceCloned # checked
  /\ inFlight' = [inFlight EXCEPT ![client].voiceCloned = checked]
  /\ UNCHANGED <<store, res>>

\* the Start Translation button, enabled, is clicked: startTranslation runs
\* up to its first await with the languages and the voiceCloned of the render
StartTranslation(client) ==
  /\ Suspended(client, "TranslationWorkflow", "idle")
  /\ canStartTranslation(inFlight[client])
  /\ ~inFlight[client].isStartingTranslation
  /\ ~isTranslationInProgress(inFlight[client])
  /\ inFlight' =
       IF inFlight[client].sourceLanguage = inFlight[client].targetLanguage
       THEN [inFlight EXCEPT
               ![client].error =
                 "Source and target languages must be different"]
       ELSE [inFlight EXCEPT
               ![client].pc = "createTranslationJob",
               ![client].isStartingTranslation = TRUE,
               ![client].error = NULL,
               ![client].render =
                 [sourceLanguage |-> inFlight[client].sourceLanguage,
                  targetLanguage |-> inFlight[client].targetLanguage,
                  voiceCloned |-> inFlight[client].voiceCloned]]
  /\ UNCHANGED <<store, res>>

translationJobInput(component) ==
  [video_id |-> component.videoId,
   source_language |-> component.render.sourceLanguage,
   target_language |-> component.render.targetLanguage]

audioJobInput(component) ==
  [translation_job_id |-> component.translationJob.id,
   voice_cloned |-> component.render.voiceCloned]

\* catch: setError(...); finally: setIsStartingTranslation(false)
Caught(component) ==
  [component EXCEPT
     !.pc = "idle",
     !.error = "Failed to start translation process. Please try again.",
     !.isStartingTranslation = FALSE,
     !.render = NoRender]

\* await trpc.createTranslationJob.mutate(translationJobInput) returns or
\* throws
ReceiveTranslationJob(client) ==
  /\ Suspended(client, "TranslationWorkflow", "createTranslationJob")
  /\ res.op = "createTranslationJob"
  /\ inFlight' =
       IF res.error # NoError
       THEN [inFlight EXCEPT ![client] = Caught(@)]
       ELSE [inFlight EXCEPT ![client].pc = "createAudioGenerationJob",
                             ![client].translationJob = res.row]
  /\ res' = [op |-> "none"]
  /\ UNCHANGED store

\* await trpc.createAudioGenerationJob.mutate(audioJobInput) returns or
\* throws; when it returns, loadWorkflowStatus() sends the request that
\* startTranslation awaits
ReceiveAudioGenerationJob(client) ==
  /\ Suspended(client, "TranslationWorkflow", "createAudioGenerationJob")
  /\ res.op = "createAudioGenerationJob"
  /\ inFlight' =
       IF res.error # NoError
       THEN [inFlight EXCEPT ![client] = Caught(@)]
       ELSE [inFlight EXCEPT ![client].pc = "loadWorkflowStatus"]
  /\ res' = [op |-> "none"]
  /\ UNCHANGED store

\* loadWorkflowStatus: setWorkflowStatus(status) with the response of a
\* request; the response of the request that startTranslation awaits also
\* ends startTranslation: finally setIsStartingTranslation(false)
ReceiveWorkflowStatus(client) ==
  /\ inFlight[client].op = "TranslationWorkflow"
  /\ res.op = "getTranslationWorkflowStatus"
  /\ res.videoId = inFlight[client].videoId
  /\ inFlight' =
       IF res.awaited
       THEN [inFlight EXCEPT ![client].workflowStatus = Result(res),
                             ![client].pc = "idle",
                             ![client].isStartingTranslation = FALSE,
                             ![client].render = NoRender]
       ELSE [inFlight EXCEPT ![client].workflowStatus = Result(res)]
  /\ res' = [op |-> "none"]
  /\ UNCHANGED store

(***************************************************************************)
(* Inputs of the handlers: the ids of the rows and one id of no row.       *)
(***************************************************************************)
Ids(table) == 1..(Len(table) + 1)

\* the input of createTestVideo
CreateVideoInputs ==
  [filename : {"test_video.mp4"}, original_filename : {"user_test_video.mp4"},
   file_path : {"/uploads/test_video.mp4"}, file_size : {1048576},
   duration : {"120"}, format : {"mp4"}]

CreateTranslationJobInputs ==
  [video_id : Ids(videos), source_language : {"en"}, target_language : {"es"}]

CreateAudioGenerationJobInputs ==
  [translation_job_id : Ids(translationJobs), voice_cloned : {TRUE}]

\* the final output of the first video, translation job and audio generation
\* job, whether they exist or not
CreateFinalOutputInputs ==
  [video_id : {1}, translation_job_id : {1}, audio_generation_job_id : {1},
   final_video_path : {"/outputs/a.mp4"}]

UpdateVideoStatusInputs ==
  [id : Ids(videos), upload_status : uploadStatusEnum,
   duration : {UNDEFINED}, format : {UNDEFINED}]

UpdateTranslationJobInputs ==
  [id : Ids(translationJobs), status : translationStatusEnum,
   original_audio_path : {UNDEFINED}, translated_text : {UNDEFINED},
   error_message : {UNDEFINED}, started_at : {UNDEFINED},
   completed_at : {UNDEFINED}]

UpdateAudioGenerationJobInputs ==
  [id : Ids(audioGenerationJobs), status : audioGenerationStatusEnum,
   generated_audio_path : {UNDEFINED}, error_message : {UNDEFINED},
   started_at : {UNDEFINED}, completed_at : {UNDEFINED}]

(***************************************************************************)
(* The store after createDB and the inserts of the videos, and the         *)
(* handlers served by the router.                                          *)
(***************************************************************************)
\* The rows the tests insert into the tables directly, in the status given:
\* a video, a translation job of video 1, the audio generation job of the
\* translation job of the same id, and the final output of the first three.
PipelineTranslationJob(id, status, now) ==
  [id |-> id, video_id |-> 1, source_language |-> "en",
   target_language |-> IF id = 1 THEN "es" ELSE "fr", status |-> status,
   original_audio_path |-> NULL, translated_text |-> NULL,
   error_message |-> NULL, started_at |-> NULL, completed_at |-> NULL,
   created_at |-> now]

PipelineAudioGenerationJob(id, status, now) ==
  [id |-> id, translation_job_id |-> id, status |-> status,
   generated_audio_path |-> NULL, voice_cloned |-> TRUE,
   error_message |-> NULL, started_at |-> NULL, completed_at |-> NULL,
   created_at |-> now]

PipelineVideo(status) ==
  [id |-> 1, filename |-> "test_video.mp4",
   original_filename |-> "original_video.mp4",
   file_path |-> "/uploads/test_video.mp4", file_size |-> 1024000,
   duration |-> "120", format |-> "mp4", upload_status |-> status]

PipelineFinalOutput(now) ==
  [id |-> 1, video_id |-> 1, translation_job_id |-> 1,
   audio_generation_job_id |-> 1,
   final_video_path |-> "/outputs/final-video.mp4",
   created_at |-> now]

\* the videos of the database when the router starts: none, or videos
\* inserted with any upload status (no handler sets the upload status of a
\* stored video)
Init ==
  /\ videos \in
       {<<>>} \cup {<<PipelineVideo(s)>> : s \in uploadStatusEnum}
              \cup {<<PipelineVideo(s), [PipelineVideo(t) EXCEPT !.id = 2]>> :
                      s \in uploadStatusEnum, t \in uploadStatusEnum}
  /\ translationJobs = <<>>
  /\ audioGenerationJobs = <<>>
  /\ finalOutputs = <<>>
  /\ res = [op |-> "none"]
  /\ inFlight = <<>>

\* the response is delivered to the caller; the router takes the next request
Respond ==
  /\ ~Idle
  /\ UNCHANGED inFlight
  /\ res' = [op |-> "none"]
  /\ UNCHANGED store

\* The router serves the requests that write to the store, each as it
\* arrives: a handler is invoked while calls of the same or of other handlers
\* are suspended at their awaits, up to MaxCalls of them.
Next ==
  \/ RoomForRow /\ \E input \in CreateVideoInputs : CreateVideo(input)
  \/ \E input \in UpdateVideoStatusInputs : UpdateVideoStatus(input)
  \/ \E input \in CreateTranslationJobInputs :
       /\ createTranslationJobError(input) = NoError => RoomForRow
       /\ CreateTranslationJob(input)
  \/ \E call \in Calls : RoomForRow /\ InsertTranslationJob(call)
  \/ \E input \in UpdateTranslationJobInputs : UpdateTranslationJob(input)
  \/ \E input \in CreateAudioGenerationJobInputs :
       /\ createAudioGenerationJobError(input) = NoError => RoomForRow
       /\ CreateAudioGenerationJob(input)
  \/ \E call \in Calls : RoomForRow /\ InsertAudioGenerationJob(call)
  \/ \E input \in UpdateAudioGenerationJobInputs :
       UpdateAudioGenerationJob(input)
  \/ \E input \in CreateFinalOutputInputs : CreateFinalOutput(input)
  \/ \E call \in Calls : SelectTranslationJob(call)
  \/ \E call \in Calls : SelectAudioGenerationJob(call)
  \/ \E call \in Calls : SelectExistingOutput(call)
  \/ \E call \in Calls : InsertFinalOutput(call)
  \/ Respond

Spec == Init /\ [][Next]_vars

(***************************************************************************)
(* The status derivation.  calculateWorkflowStatus on its own, with every  *)
(* combination of the statuses of its four arguments; and the status call  *)
(* on the stores the helpers of its tests build: a video in any upload     *)
(* status, possibly with a translation job in any status, an audio         *)
(* generation job of that in any status and a final output of the three,   *)
(* asked about the video and about an id of no video, up to MaxCalls calls *)
(* suspended at once.                                                      *)
(***************************************************************************)
InitCalc ==
  /\ \/ /\ videos = <<>>
        /\ translationJobs = <<>>
        /\ audioGenerationJobs = <<>>
        /\ finalOutputs = <<>>
        /\ res \in
             [op : {"args"},
              video :
                {[NewVideo(input) EXCEPT !.upload_status = s] :
                   input \in CreateVideoInputs, s \in uploadStatusEnum},
              translationJob :
                {NoRow} \cup
                {[NewTranslationJob(input, 1) EXCEPT !.status = s] :
                   input \in CreateTranslationJobInputs,
                   s \in translationStatusEnum},
              audioGenerationJob :
                {NoRow} \cup
                {[NewAudioGenerationJob([translation_job_id |-> 1,
                                         voice_cloned |-> TRUE], 1)
                    EXCEPT !.status = s] : s \in audioGenerationStatusEnum},
              finalOutput :
                {NoRow,
                 NewFinalOutput([video_id |-> 1, translation_job_id |-> 1,
                                 audio_generation_job_id |-> 1,
                                 final_video_path |-> "/outputs/a.mp4"], 1)}]
     \/ /\ videos \in {<<PipelineVideo(s)>> : s \in uploadStatusEnum}
        /\ translationJobs \in
             {<<>>} \cup {<<PipelineTranslationJob(1, s, 1)>> :
                            s \in translationStatusEnum}
        /\ audioGenerationJobs \in
             {<<>>} \cup {<<PipelineAudioGenerationJob(1, s, 1)>> :
                            s \in audioGenerationStatusEnum}
        /\ translationJobs = <<>> => audioGenerationJobs = <<>>
        /\ finalOutputs \in {<<>>, <<PipelineFinalOutput(1)>>}
        /\ audioGenerationJobs = <<>> => finalOutputs = <<>>
        /\ res = [op |-> "none"]
  /\ inFlight = <<>>

CalculateWorkflowStatus ==
  /\ res.op = "args"
  /\ UNCHANGED inFlight
  /\ res' = [op |-> "calculateWorkflowStatus",
             video |-> res.video,
             translationJob |-> res.translationJob,
             audioGenerationJob |-> res.audioGenerationJob,
             finalOutput |-> res.finalOutput,
             result |-> calculateWorkflowStatus(res.video, res.translationJob,
                                                res.audioGenerationJob,
                                                res.finalOutput)]
  /\ UNCHANGED store

NextCalc ==
  \/ CalculateWorkflowStatus
  \/ \E videoId \in Ids(videos) : GetTranslationWorkflowStatus(videoId)
  \/ \E call \in Calls : ReadTranslationJob(call)
  \/ \E call \in Calls : ReadAudioGenerationJob(call)
  \/ \E call \in Calls : ReadFinalOutput(call)
  \/ Respond

SpecCalc == InitCalc /\ [][NextCalc]_vars

(***************************************************************************)
(* Two translation pipelines: video 1 with translation job 1 and its audio *)
(* generation job 1, and a second translation job, of video 1 or of video  *)
(* 2, with audio generation job 2, a job of either translation job, as     *)
(* createVideo, the job creations and the update handlers leave them.      *)
(* Calls of createFinalOutput arrive from there, up to MaxCalls of them    *)
(* suspended at once, while the status of translation job 1 is updated.    *)
(***************************************************************************)
PipelineStatuses == {"completed", "failed"}

\* the second translation job, completed, of video 1 or of video 2
SecondTranslationJobs ==
  {[PipelineTranslationJob(2, "completed", 1) EXCEPT !.video_id = videoId] :
     videoId \in 1..2}

\* the second audio generation job, of translation job 1 or 2
SecondAudioGenerationJobs ==
  {[PipelineAudioGenerationJob(2, status, 1)
      EXCEPT !.translation_job_id = id] :
     status \in PipelineStatuses, id \in 1..2}

InitPipelines ==
  /\ videos \in {<<PipelineVideo(s), [PipelineVideo("uploaded") EXCEPT !.id = 2]>> :
                   s \in {"uploaded", "failed"}}
  /\ translationJobs \in
       {<<PipelineTranslationJob(1, "completed", 1), second>> :
          second \in SecondTranslationJobs}
  /\ audioGenerationJobs \in
       {<<PipelineAudioGenerationJob(1, "completed", 1), second>> :
          second \in SecondAudioGenerationJobs}
  /\ finalOutputs = <<>>
  /\ res = [op |-> "none"]
  /\ inFlight = <<>>

\* the triples of video 1 with the jobs of the store, and the triples in
\* which one id is an id of no row
PipelineFinalOutputInputs ==
  {input \in [video_id : Ids(videos),
              translation_job_id : Ids(translationJobs),
              audio_generation_job_id : Ids(audioGenerationJobs),
              final_video_path : {"/outputs/a.mp4"}] :
     \/ /\ input.video_id = 1
        /\ input.translation_job_id <= Len(translationJobs)
        /\ input.audio_generation_job_id <= Len(audioGenerationJobs)
     \/ /\ input.video_id > Len(videos)
        /\ input.translation_job_id = 1
        /\ input.audio_generation_job_id = 1
     \/ /\ input.video_id = 1
        /\ input.translation_job_id > Len(translationJobs)
        /\ input.audio_generation_job_id = 1
     \/ /\ input.video_id = 1
        /\ input.translation_job_id = 1
        /\ input.audio_generation_job_id > Len(audioGenerationJobs)}

PipelineTranslationJobUpdates ==
  [id : {1}, status : PipelineStatuses,
   original_audio_path : {UNDEFINED}, translated_text : {UNDEFINED},
   error_message : {UNDEFINED}, started_at : {UNDEFINED},
   completed_at : {UNDEFINED}]

NextPipelines ==
  \/ \E input \in PipelineFinalOutputInputs : CreateFinalOutput(input)
  \/ \E call \in Calls : SelectTranslationJob(call)
  \/ \E call \in Calls : SelectAudioGenerationJob(call)
  \/ \E call \in Calls : SelectExistingOutput(call)
  \/ \E call \in Calls : InsertFinalOutput(call)
  \/ \E input \in PipelineTranslationJobUpdates : UpdateTranslationJob(input)
  \/ Respond

SpecPipelines == InitPipelines /\ [][NextPipelines]_vars

(***************************************************************************)
(* The final output of a video asked for through both handlers.  Video 1   *)
(* has the translation jobs 1 and 2, the second created with or after the  *)
(* first, and the audio generation jobs 1, of translation job 1, and 2, of *)
(* either; final outputs of the video are created while the status is      *)
(* asked for, up to MaxCalls calls suspended at once.                      *)
(***************************************************************************)
\* the second audio generation job, created with or after the first and not
\* before its translation job
LaterAudioGenerationJobs(translationJob) ==
  {r \in {[PipelineAudioGenerationJob(2, "completed", now)
             EXCEPT !.translation_job_id = id] : id \in 1..2, now \in 1..2} :
     r.translation_job_id = 2 => r.created_at >= translationJob.created_at}

InitFinalOutputs ==
  /\ videos = <<PipelineVideo("uploaded")>>
  /\ translationJobs \in
       {<<PipelineTranslationJob(1, s, 1), second>> :
          s \in PipelineStatuses,
          second \in {PipelineTranslationJob(2, "completed", now) :
                        now \in 1..2}}
  /\ audioGenerationJobs \in
       {<<PipelineAudioGenerationJob(1, s, 1), second>> :
          s \in PipelineStatuses,
          second \in LaterAudioGenerationJobs(translationJobs[2])}
  /\ finalOutputs = <<>>
  /\ res = [op |-> "none"]
  /\ inFlight = <<>>

VideoFinalOutputInputs ==
  [video_id : {1}, translation_job_id : 1..2, audio_generation_job_id : 1..2,
   final_video_path : {"/outputs/a.mp4"}]

NextFinalOutputs ==
  \/ \E input \in VideoFinalOutputInputs : CreateFinalOutput(input)
  \/ \E call \in Calls : SelectTranslationJob(call)
  \/ \E call \in Calls : SelectAudioGenerationJob(call)
  \/ \E call \in Calls : SelectExistingOutput(call)
  \/ \E call \in Calls : InsertFinalOutput(call)
  \/ \E videoId \in Ids(videos) : GetFinalOutputByVideoId(videoId)
  \/ \E videoId \in Ids(videos) : GetTranslationWorkflowStatus(videoId)
  \/ \E call \in Calls : ReadTranslationJob(call)
  \/ \E call \in Calls : ReadAudioGenerationJob(call)
  \/ \E call \in Calls : ReadFinalOutput(call)
  \/ Respond

SpecFinalOutputs == InitFinalOutputs /\ [][NextFinalOutputs]_vars

(***************************************************************************)
(* The update handlers of the jobs, with inputs in which every field may   *)
(* be left out, null or a value.  The store has an uploaded video, its     *)
(* completed translation job 1 with the audio generation jobs 1 and 2, and *)
(* its translation job 2; the updates address row 1 of a table or an id    *)
(* of no row.                                                              *)
(***************************************************************************)
Given(value) == {UNDEFINED, NULL, value}

AtMostProvided(inputs, fields) ==
  {input \in inputs : Cardinality(Provided(input, fields)) <= MaxProvided}

TranslationJobPatches ==
  AtMostProvided(
    [id : {1, MaxPerTable + 1},
     status : {UNDEFINED, "translating", "failed"},
     original_audio_path : Given("/initial/path.wav"),
     translated_text : Given("Texto traducido"),
     error_message : Given("Audio extraction failed"),
     started_at : Given("2023-12-01T10:30:00Z"),
     completed_at : Given("2023-12-01T11:15:00Z")],
    TranslationJobUpdateFields)

AudioGenerationJobPatches ==
  AtMostProvided(
    [id : {1, MaxPerTable + 1},
     status : {UNDEFINED, "generating", "failed"},
     generated_audio_path : Given("/audio/generated.wav"),
     error_message : Given("Voice cloning failed"),
     started_at : Given("2024-01-01T11:00:00Z"),
     completed_at : Given("2024-01-01T11:15:00Z")],
    AudioGenerationJobUpdateFields)

InitJobUpdates ==
  /\ videos = <<PipelineVideo("uploaded")>>
  /\ translationJobs =
       <<PipelineTranslationJob(1, "completed", 1),
         PipelineTranslationJob(2, "pending", 1)>>
  /\ audioGenerationJobs =
       <<PipelineAudioGenerationJob(1, "pending", 1),
         [PipelineAudioGenerationJob(2, "pending", 1)
            EXCEPT !.translation_job_id = 1, !.voice_cloned = FALSE]>>
  /\ finalOutputs = <<>>
  /\ res = [op |-> "none"]
  /\ inFlight = <<>>

NextJobUpdates ==
  \/ \E input \in TranslationJobPatches : UpdateTranslationJob(input)
  \/ \E input \in AudioGenerationJobPatches : UpdateAudioGenerationJob(input)
  \/ Respond

SpecJobUpdates == InitJobUpdates /\ [][NextJobUpdates]_vars

(***************************************************************************)
(* The video handlers, with inputs in which the duration and the format    *)
(* may be given or left out.                                               *)
(***************************************************************************)
VideoUploads ==
  [filename : {"test_video.mp4"}, original_filename : {"user_test_video.mp4"},
   file_path : {"/uploads/test_video.mp4"}, file_size : {1048576},
   duration : {NULL, "120"}, format : {"mp4"}]

VideoPatches ==
  [id : 1..(MaxPerTable + 1), upload_status : uploadStatusEnum,
   duration : {UNDEFINED, "300"}, format : {UNDEFINED, "mkv"}]

InitVideos ==
  /\ videos = <<>>
  /\ translationJobs = <<>>
  /\ audioGenerationJobs = <<>>
  /\ finalOutputs = <<>>
  /\ res = [op |-> "none"]
  /\ inFlight = <<>>

NextVideos ==
  \/ \E input \in VideoUploads : CreateVideo(input)
  \/ \E input \in VideoPatches : UpdateVideoStatus(input)
  \/ Respond

SpecVideos == InitVideos /\ [][NextVideos]_vars

(***************************************************************************)
(* Concurrent requests.  The store has an uploaded video with its          *)
(* completed translation job and the completed audio generation job of     *)
(* that; calls of createFinalOutput for this triple arrive, up to MaxCalls *)
(* of them suspended at once, and the router serves status updates of the  *)
(* three rows between their awaits.                                        *)
(***************************************************************************)
ConcurrentFinalOutputInputs ==
  [video_id : {1}, translation_job_id : {1}, audio_generation_job_id : {1},
   final_video_path : Paths]

ConcurrentVideoUpdates ==
  [id : {1}, upload_status : {"uploaded", "failed"},
   duration : {UNDEFINED}, format : {UNDEFINED}]

ConcurrentTranslationJobUpdates ==
  [id : {1}, status : {"completed", "failed"},
   original_audio_path : {UNDEFINED}, translated_text : {UNDEFINED},
   error_message : {UNDEFINED}, started_at : {UNDEFINED},
   completed_at : {UNDEFINED}]

ConcurrentAudioGenerationJobUpdates ==
  [id : {1}, status : {"completed", "failed"},
   generated_audio_path : {UNDEFINED}, error_message : {UNDEFINED},
   started_at : {UNDEFINED}, completed_at : {UNDEFINED}]

InitConcurrent ==
  /\ videos = <<PipelineVideo("uploaded")>>
  /\ translationJobs = <<PipelineTranslationJob(1, "completed", 1)>>
  /\ audioGenerationJobs = <<PipelineAudioGenerationJob(1, "completed", 1)>>
  /\ finalOutputs = <<>>
  /\ res = [op |-> "none"]
  /\ inFlight = <<>>

NextConcurrent ==
  \/ \E input \in ConcurrentFinalOutputInputs : CreateFinalOutput(input)
  \/ \E call \in Calls : SelectTranslationJob(call)
  \/ \E call \in Calls : SelectAudioGenerationJob(call)
  \/ \E call \in Calls : SelectExistingOutput(call)
  \/ \E call \in Calls : InsertFinalOutput(call)
  \/ \E input \in ConcurrentVideoUpdates : UpdateVideoStatus(input)
  \/ \E input \in ConcurrentTranslationJobUpdates : UpdateTranslationJob(input)
  \/ \E input \in ConcurrentAudioGenerationJobUpdates : UpdateAudioGenerationJob(input)
  \/ Respond

SpecConcurrent == InitConcurrent /\ [][NextConcurrent]_vars

(***************************************************************************)
(* The status of a video asked for while its final output is created and   *)
(* the statuses of its jobs are updated.  The store has a video, uploaded  *)
(* or with a failed upload, its completed translation job and the          *)
(* completed audio generation job of that, without or with their final     *)
(* output; the status is also asked for with the id of no video.           *)
(***************************************************************************)
InitCompleted ==
  /\ videos \in {<<PipelineVideo(s)>> : s \in {"uploaded", "failed"}}
  /\ translationJobs = <<PipelineTranslationJob(1, "completed", 1)>>
  /\ audioGenerationJobs = <<PipelineAudioGenerationJob(1, "completed", 1)>>
  /\ finalOutputs \in {<<>>, <<PipelineFinalOutput(1)>>}
  /\ res = [op |-> "none"]
  /\ inFlight = <<>>

NextCompleted ==
  \/ \E input \in CreateFinalOutputInputs : CreateFinalOutput(input)
  \/ \E call \in Calls : SelectTranslationJob(call)
  \/ \E call \in Calls : SelectAudioGenerationJob(call)
  \/ \E call \in Calls : SelectExistingOutput(call)
  \/ \E call \in Calls : InsertFinalOutput(call)
  \/ \E input \in ConcurrentVideoUpdates : UpdateVideoStatus(input)
  \/ \E input \in ConcurrentTranslationJobUpdates : UpdateTranslationJob(input)
  \/ \E input \in ConcurrentAudioGenerationJobUpdates :
       UpdateAudioGenerationJob(input)
  \/ \E videoId \in Ids(videos) : GetTranslationWorkflowStatus(videoId)
  \/ \E call \in Calls : ReadTranslationJob(call)
  \/ \E call \in Calls : ReadAudioGenerationJob(call)
  \/ \E call \in Calls : ReadFinalOutput(call)
  \/ Respond

SpecCompleted == InitCompleted /\ [][NextCompleted]_vars

(***************************************************************************)
(* The status of a video after its final output.  The store has a video,   *)
(* uploaded or failed since, its completed translation job, the completed  *)
(* audio generation job of that and their final output.  The status of the *)
(* video is asked for while further jobs and final outputs of the video    *)
(* are created, the jobs are set to failed and updateVideoStatus is called *)
(* with failed, up to MaxCalls calls suspended at once.                    *)
(***************************************************************************)
InitAbsorbing ==
  /\ videos \in {<<PipelineVideo(s)>> : s \in {"uploaded", "failed"}}
  /\ translationJobs = <<PipelineTranslationJob(1, "completed", 1)>>
  /\ audioGenerationJobs = <<PipelineAudioGenerationJob(1, "completed", 1)>>
  /\ finalOutputs = <<PipelineFinalOutput(1)>>
  /\ res = [op |-> "none"]
  /\ inFlight = <<>>

NextAbsorbing ==
  \/ GetTranslationWorkflowStatus(1)
  \/ \E call \in Calls : ReadTranslationJob(call)
  \/ \E call \in Calls : ReadAudioGenerationJob(call)
  \/ \E call \in Calls : ReadFinalOutput(call)
  \/ \E input \in [video_id : {1}, source_language : {"en"},
                    target_language : {"fr"}] :
       CreateTranslationJob(input)
  \/ \E call \in Calls : InsertTranslationJob(call)
  \/ \E input \in [translation_job_id : {1}, voice_cloned : {TRUE}] :
       CreateAudioGenerationJob(input)
  \/ \E call \in Calls : InsertAudioGenerationJob(call)
  \/ \E input \in [video_id : {1}, translation_job_id : {1},
                    audio_generation_job_id : 1..MaxPerTable,
                    final_video_path : {"/outputs/a.mp4"}] :
       CreateFinalOutput(input)
  \/ \E call \in Calls : SelectTranslationJob(call)
  \/ \E call \in Calls : SelectAudioGenerationJob(call)
  \/ \E call \in Calls : SelectExistingOutput(call)
  \/ \E call \in Calls : InsertFinalOutput(call)
  \/ \E input \in [id : {1}, upload_status : {"failed"},
                    duration : {UNDEFINED}, format : {UNDEFINED}] :
       UpdateVideoStatus(input)
  \/ \E input \in [id : 1..MaxPerTable, status : {"failed"},
                    original_audio_path : {UNDEFINED},
                    translated_text : {UNDEFINED},
                    error_message : {UNDEFINED}, started_at : {UNDEFINED},
                    completed_at : {UNDEFINED}] :
       UpdateTranslationJob(input)
  \/ \E input \in [id : 1..MaxPerTable, status : {"completed", "failed"},
                    generated_audio_path : {UNDEFINED},
                    error_message : {UNDEFINED}, started_at : {UNDEFINED},
                    completed_at : {UNDEFINED}] :
       UpdateAudioGenerationJob(input)
  \/ Respond

SpecAbsorbing == InitAbsorbing /\ [][NextAbsorbing]_vars

(***************************************************************************)
(* The list handlers.  The store holds up to MaxListed videos and no job,  *)
(* or two uploaded videos and up to MaxListed translation jobs of them;    *)
(* the rows carry the created_at the lists are ordered by, which grows     *)
(* with the id and may be the same for several rows.                       *)
(***************************************************************************)
ListedVideo(id, status, now) ==
  [id |-> id, filename |-> "test_video.mp4",
   original_filename |-> "original_test.mp4",
   file_path |-> "/uploads/test_video.mp4", file_size |-> 50000000,
   duration |-> "120", format |-> "mp4", upload_status |-> status,
   created_at |-> now]

ListedTranslationJob(id, videoId, status, now) ==
  [PipelineTranslationJob(id, status, now) EXCEPT !.video_id = videoId]

ListedVideosOf(id) ==
  {ListedVideo(id, status, now) :
     status \in {"pending", "uploaded"}, now \in 1..MaxClock}

ListedTranslationJobsOf(id) ==
  {ListedTranslationJob(id, videoId, status, now) :
     videoId \in 1..2, status \in {"pending", "completed"},
     now \in 1..MaxClock}

\* the created_at of the rows does not decrease with the id
CreatedInOrder(t) ==
  \A i, j \in DOMAIN t : i < j => t[i].created_at <= t[j].created_at

ListedVideoTables(n) ==
  {t \in [1..n -> UNION {ListedVideosOf(i) : i \in 1..n}] :
     /\ \A i \in 1..n : t[i] \in ListedVideosOf(i)
     /\ CreatedInOrder(t)}

ListedTranslationJobTables(n) ==
  {t \in [1..n -> UNION {ListedTranslationJobsOf(i) : i \in 1..n}] :
     /\ \A i \in 1..n : t[i] \in ListedTranslationJobsOf(i)
     /\ CreatedInOrder(t)}

Offsets == 0..(MaxListed + 1)

GetVideosQueries ==
  [limit : 1..MaxLimit, offset : Offsets]
  \cup [status : {"pending", "uploaded"}, limit : 1..MaxLimit, offset : Offsets]

GetTranslationJobsQueries ==
  [limit : 1..MaxLimit, offset : Offsets]
  \cup [video_id : 1..2, limit : 1..MaxLimit, offset : Offsets]
  \cup [status : {"pending", "completed"}, limit : 1..MaxLimit,
        offset : Offsets]
  \cup [video_id : 1..2, status : {"pending", "completed"},
        limit : 1..MaxLimit, offset : Offsets]

InitLists ==
  /\ \E n \in 0..MaxListed :
       \/ /\ videos \in ListedVideoTables(n)
          /\ translationJobs = <<>>
       \/ /\ videos = <<ListedVideo(1, "uploaded", 1),
                        ListedVideo(2, "uploaded", 1)>>
          /\ translationJobs \in ListedTranslationJobTables(n)
  /\ audioGenerationJobs = <<>>
  /\ finalOutputs = <<>>
  /\ res = [op |-> "none"]
  /\ inFlight = <<>>

NextLists ==
  \/ \E input \in GetVideosQueries : GetVideos(input)
  \/ \E input \in GetTranslationJobsQueries : GetTranslationJobs(input)
  \/ Respond

SpecLists == InitLists /\ [][NextLists]_vars

(***************************************************************************)
(* A status call served concurrently with the handlers that write.  The    *)
(* store has a video, in processing or uploaded; status calls for it are   *)
(* served, up to MaxCalls calls suspended at once, while its translation   *)
(* jobs, audio generation jobs and final outputs are created and the jobs  *)
(* completed.  A select of the status call and a write of     *)
(* another handler run when the store before them has been recorded for    *)
(* the status calls.                                                       *)
(***************************************************************************)
\* the store as it is now has been recorded for the calls in flight
AllObserved == \A call \in Calls : Observed(call)

StatusTranslationJobUpdates ==
  [id : {1}, status : {"completed"},
   original_audio_path : {UNDEFINED}, translated_text : {UNDEFINED},
   error_message : {UNDEFINED}, started_at : {UNDEFINED},
   completed_at : {UNDEFINED}]

StatusAudioGenerationJobUpdates ==
  [id : {1}, status : {"completed"},
   generated_audio_path : {UNDEFINED}, error_message : {UNDEFINED},
   started_at : {UNDEFINED}, completed_at : {UNDEFINED}]

InitStatusConcurrent ==
  /\ videos \in {<<PipelineVideo(s)>> : s \in {"processing", "uploaded"}}
  /\ translationJobs = <<>>
  /\ audioGenerationJobs = <<>>
  /\ finalOutputs = <<>>
  /\ res = [op |-> "none"]
  /\ inFlight = <<>>

NextStatusConcurrent ==
  \/ GetTranslationWorkflowStatus(1)
  \/ \E call \in Calls : Observe(call)
  \/ \E call \in Calls : Observed(call) /\ ReadTranslationJob(call)
  \/ \E call \in Calls : Observed(call) /\ ReadAudioGenerationJob(call)
  \/ \E call \in Calls : Observed(call) /\ ReadFinalOutput(call)
  \/ \E input \in [video_id : {1}, source_language : {"en"},
                    target_language : {"es"}] :
       /\ createTranslationJobError(input) = NoError => RoomForRow
       /\ CreateTranslationJob(input)
  \/ \E call \in Calls :
       AllObserved /\ RoomForRow /\ InsertTranslationJob(call)
  \/ /\ AllObserved
     /\ \E input \in StatusTranslationJobUpdates : UpdateTranslationJob(input)
  \/ \E input \in [translation_job_id : {1}, voice_cloned : {TRUE}] :
       /\ createAudioGenerationJobError(input) = NoError => RoomForRow
       /\ CreateAudioGenerationJob(input)
  \/ \E call \in Calls :
       AllObserved /\ RoomForRow /\ InsertAudioGenerationJob(call)
  \/ /\ AllObserved
     /\ \E input \in StatusAudioGenerationJobUpdates :
          UpdateAudioGenerationJob(input)
  \/ \E input \in [video_id : {1}, translation_job_id : {1},
                    audio_generation_job_id : {1},
                    final_video_path : {"/outputs/a.mp4"}] :
       CreateFinalOutput(input)
  \/ \E call \in Calls : SelectTranslationJob(call)
  \/ \E call \in Calls : SelectAudioGenerationJob(call)
  \/ \E call \in Calls : SelectExistingOutput(call)
  \/ \E call \in Calls : AllObserved /\ InsertFinalOutput(call)
  \/ Respond

SpecStatusConcurrent == InitStatusConcurrent /\ [][NextStatusConcurrent]_vars

(***************************************************************************)
(* The client against the server.  The store has an uploaded video; the    *)
(* interval of the component of the video loads the workflow status again  *)
(* and again, the user selects languages, switches voice cloning and       *)
(* starts translations, while the translation collaborator completes or    *)
(* fails translation jobs.                                                 *)
(***************************************************************************)
CollaboratorUpdates ==
  [id : {1}, status : {"completed", "failed"},
   original_audio_path : {UNDEFINED}, translated_text : {UNDEFINED},
   error_message : {UNDEFINED}, started_at : {UNDEFINED},
   completed_at : {UNDEFINED}]

InitClient ==
  /\ videos = <<PipelineVideo("uploaded")>>
  /\ translationJobs = <<>>
  /\ audioGenerationJobs = <<>>
  /\ finalOutputs = <<>>
  /\ res = [op |-> "none"]
  /\ inFlight = <<TranslationWorkflow(1)>>

\* the component has sent no request of the procedure that is being served
\* or whose response it has yet to take
NotSent(op) ==
  /\ res.op # op
  /\ \A call \in Calls : inFlight[call].op # op

Clients == {call \in Calls : inFlight[call].op = "TranslationWorkflow"}

\* the requests of the interval of the component that the router has taken
\* and whose responses the component has yet to take
Loading(client) ==
  Cardinality({call \in Calls :
                 /\ inFlight[call].op = "getTranslationWorkflowStatus"
                 /\ inFlight[call].videoId = inFlight[client].videoId
                 /\ ~inFlight[call].awaited})
  + (IF res.op = "getTranslationWorkflowStatus" /\ ~res.awaited
     THEN 1 ELSE 0)

\* the request taken in this step is the one startTranslation awaits
TakesAwaited ==
  IF Len(inFlight') > Len(inFlight)
  THEN inFlight'[Len(inFlight')].awaited
  ELSE res'.awaited

\* the router takes a status request of the component: the one its
\* startTranslation awaits, or one of its interval while fewer than
\* MaxLoading of those are outstanding
LoadWorkflowStatus(client) ==
  /\ GetTranslationWorkflowStatus(inFlight[client].videoId)
  /\ Loading(client) < MaxLoading \/ TakesAwaited

NextClient ==
  \/ \E client \in Clients : LoadWorkflowStatus(client)
  \/ \E call \in Calls : ReadTranslationJob(call)
  \/ \E call \in Calls : ReadAudioGenerationJob(call)
  \/ \E call \in Calls : ReadFinalOutput(call)
  \/ \E client \in Clients : ReceiveWorkflowStatus(client)
  \/ \E client \in Clients, value \in Languages :
       SetSourceLanguage(client, value)
  \/ \E client \in Clients, value \in Languages :
       SetTargetLanguage(client, value)
  \/ \E client \in Clients, checked \in BOOLEAN :
       SetVoiceCloned(client, checked)
  \/ \E client \in Clients : StartTranslation(client)
  \/ \E client \in Clients :
       /\ Await(client, "createTranslationJob")
       /\ NotSent("createTranslationJob")
       /\ createTranslationJobError(translationJobInput(inFlight[client]))
            = NoError => RoomForRow
       /\ CreateTranslationJob(translationJobInput(inFlight[client]))
  \/ \E call \in Calls : RoomForRow /\ InsertTranslationJob(call)
  \/ \E client \in Clients : ReceiveTranslationJob(client)
  \/ \E client \in Clients :
       /\ Await(client, "createAudioGenerationJob")
       /\ NotSent("createAudioGenerationJob")
       /\ createAudioGenerationJobError(audioJobInput(inFlight[client]))
            = NoError => RoomForRow
       /\ CreateAudioGenerationJob(audioJobInput(inFlight[client]))
  \/ \E call \in Calls : RoomForRow /\ InsertAudioGenerationJob(call)
  \/ \E client \in Clients : ReceiveAudioGenerationJob(client)
  \/ \E input \in CollaboratorUpdates : UpdateTranslationJob(input)
  \/ /\ res.op = "updateTranslationJob"
     /\ Respond

SpecClient == InitClient /\ [][NextClient]_vars

(***************************************************************************)
(* The ordered decision table of the status derivation.                    *)
(***************************************************************************)
StatusOf(row) == IF row = NoRow THEN "absent" ELSE row.status

RowMatches(n, video, translationJob, audioGenerationJob, finalOutput) ==
  CASE n = 1 -> finalOutput # NoRow
    [] n = 2 -> video.upload_status = "failed"
    [] n = 3 -> StatusOf(translationJob) = "failed"
    [] n = 4 -> StatusOf(audioGenerationJob) = "failed"
    [] n = 5 -> video.upload_status \in {"pending", "processing"}
    [] n = 6 -> video.upload_status = "uploaded" /\ translationJob = NoRow
    [] n = 7 -> StatusOf(translationJob) \in
                  {"pending", "extracting_audio", "translating"}
    [] n = 8 -> StatusOf(translationJob) = "completed"
                /\ audioGenerationJob = NoRow
    [] n = 9 -> StatusOf(audioGenerationJob) \in {"pending", "generating"}
    [] n = 10 -> StatusOf(audioGenerationJob) = "completed"
    [] OTHER -> TRUE

RowResult ==
  <<Status("completed", 100), Status("failed", 0), Status("failed", 25),
    Status("failed", 75), Status("uploading", 10), Status("not_started", 25),
    Status("translating", 50), Status("translating", 75),
    Status("generating_audio", 85), Status("generating_audio", 95),
    Status("not_started", 0)>>

FirstMatchingRow(video, translationJob, audioGenerationJob, finalOutput) ==
  CHOOSE n \in 1..11 :
    /\ RowMatches(n, video, translationJob, audioGenerationJob, finalOutput)
    /\ \A m \in 1..(n - 1) :
         ~RowMatches(m, video, translationJob, audioGenerationJob, finalOutput)

\* C1: for every combination of upload status, translation job (absent or
\* any status), audio generation job (absent or any status) and final
\* output (absent or present), calculateWorkflowStatus returns the
\* (overallStatus, progress) of the first matching row of the decision table.
C1_FirstMatchingRow ==
  res.op = "calculateWorkflowStatus" =>
    res.result = RowResult[FirstMatchingRow(res.video, res.translationJob,
                                            res.audioGenerationJob,
                                            res.finalOutput)]

\* a failed translation job under a video still uploading: rows 3 and 5
\* both match and row 3 is taken
C1_Witness ==
  /\ res.op = "calculateWorkflowStatus"
  /\ res.finalOutput = NoRow
  /\ res.video.upload_status = "processing"
  /\ StatusOf(res.translationJob) = "failed"
  /\ res.result = Status("failed", 25)

(***************************************************************************)
(* getTranslationWorkflowStatus on the store.                              *)
(***************************************************************************)
Answered == res.op = "getTranslationWorkflowStatus"

\* the step in which a call of the procedure returns or throws
Returns(op) == Idle /\ res'.op = op

\* the answer of a call during which no other request wrote to the store
AnsweredAlone == Answered /\ res.alone

\* such an answer is a result of the call on the store as it is
AnswersOfStore ==
  AnsweredAlone =>
    Result(res) \in getTranslationWorkflowStatusResults(res.videoId)

\* C2: whenever a final output exists for the video asked about, the answer
\* is completed with progress 100, whatever the upload status and the
\* statuses of the latest jobs.
C2_FinalOutputDominates ==
  Answered /\ FinalOutputsOfVideo(res.videoId) # {} =>
    res.overallStatus = "completed" /\ res.progress = 100

\* the answer for a failed video whose latest translation job has failed and
\* which has a final output
C2_Witness ==
  /\ Answered
  /\ FinalOutputsOfVideo(res.videoId) # {}
  /\ res.video.upload_status = "failed"
  /\ StatusOf(res.translationJob) = "failed"

\* C3: asked about an id of no video, the call answers with video, jobs and
\* final output all null, not_started and progress 0.
C3_VideoNotFound ==
  Answered /\ FindById(videos, res.videoId) = NoRow =>
    /\ res.video = NoRow
    /\ res.translationJob = NoRow
    /\ res.audioGenerationJob = NoRow
    /\ res.finalOutput = NoRow
    /\ res.overallStatus = "not_started"
    /\ res.progress = 0

\* the answer for an id of no video while other videos have jobs and outputs
C3_Witness ==
  /\ Answered
  /\ FindById(videos, res.videoId) = NoRow
  /\ translationJobs # <<>>
  /\ finalOutputs # <<>>

\* the rows of a parent were created at pairwise distinct instants
DistinctCreatedAt(rows) ==
  \A r, q \in rows : r # q => r.created_at # q.created_at

\* the row created after all the others
Newest(rows) ==
  CHOOSE r \in rows : \A q \in rows \ {r} : q.created_at < r.created_at

\* C4: of several translation jobs of the video (several audio generation
\* jobs of the selected translation job) created at distinct instants, the
\* call returns the one created last and derives the status from it only: a
\* failed job superseded by a completed one does not make the answer the
\* failure of that step.  (For a call during which no other request wrote to
\* the store.)
C4_MostRecentJob ==
  AnsweredAlone /\ res.video # NoRow =>
    LET tjs == TranslationJobsOfVideo(res.videoId)
        ajs == AudioJobsOfTranslationJob(res.translationJob.id)
    IN /\ tjs # {} /\ DistinctCreatedAt(tjs) =>
            /\ res.translationJob = Newest(tjs)
            /\ Newest(tjs).status = "completed" =>
                 <<res.overallStatus, res.progress>> # <<"failed", 25>>
       /\ ajs # {} /\ DistinctCreatedAt(ajs) =>
            /\ res.audioGenerationJob = Newest(ajs)
            /\ Newest(ajs).status = "completed" =>
                 <<res.overallStatus, res.progress>> # <<"failed", 75>>

\* the answer for a video with an older failed and a newer completed
\* translation job, which has an audio generation job
C4_Witness ==
  /\ AnsweredAlone
  /\ \E old, new \in TranslationJobsOfVideo(res.videoId) :
       /\ old.created_at < new.created_at
       /\ old.status = "failed"
       /\ new.status = "completed"
       /\ res.translationJob = new
  /\ res.audioGenerationJob # NoRow
  /\ res.overallStatus # "failed"

\* the answer for a video whose translation job has an older failed and a
\* newer completed audio generation job
C4_WitnessAudioGenerationJob ==
  /\ AnsweredAlone
  /\ \E old, new \in AudioJobsOfTranslationJob(res.translationJob.id) :
       /\ old.created_at < new.created_at
       /\ old.status = "failed"
       /\ new.status = "completed"
       /\ res.audioGenerationJob = new
  /\ res.overallStatus # "failed"

\* the row with the greatest created_at and, among equals, the greatest id
MostRecent(rows) ==
  IF rows = {} THEN NoRow
  ELSE CHOOSE r \in rows :
         \A q \in rows :
           \/ q.created_at < r.created_at
           \/ q.created_at = r.created_at /\ q.id <= r.id

\* C5: of rows of one parent with equal created_at the call selects the one
\* with the greatest id, so the rows returned are determined by the store
\* (for a call during which no other request wrote to the store).
C5_TieBrokenByGreatestId ==
  AnsweredAlone /\ res.video # NoRow =>
    /\ res.translationJob = MostRecent(TranslationJobsOfVideo(res.videoId))
    /\ res.audioGenerationJob =
         MostRecent(AudioJobsOfTranslationJob(res.translationJob.id))
    /\ res.finalOutput = MostRecent(FinalOutputsOfVideo(res.videoId))

\* C6: the status and progress answered are those derived from the video,
\* its most recent translation job, that job's most recent audio generation
\* job and the most recent final output: two stores that agree on these four
\* get the same answer, whatever their other rows (for a call during which
\* no other request wrote to the store).
C6_OlderRowsDoNotInterfere ==
  AnsweredAlone /\ res.video # NoRow =>
    LET tj == MostRecent(TranslationJobsOfVideo(res.videoId))
        aj == MostRecent(AudioJobsOfTranslationJob(tj.id))
        fo == MostRecent(FinalOutputsOfVideo(res.videoId))
    IN Status(res.overallStatus, res.progress) =
         RowResult[FirstMatchingRow(res.video, tj, aj, fo)]

(***************************************************************************)
(* The creation handlers.  A step that leaves a handler's response in res  *)
(* is the return or the throw of a call of that handler; when no other     *)
(* request wrote to the store during the call, the store before the step   *)
(* is the store the call selected from.                                    *)
(***************************************************************************)
\* the table got exactly one more row and kept the others
OneRowInserted(table, tableAfter) ==
  /\ Len(tableAfter) = Len(table) + 1
  /\ SubSeq(tableAfter, 1, Len(table)) = table

\* C7: createTranslationJob fails with a not-found error naming the id when
\* the video does not exist and with an invalid-state error naming the actual
\* status when the video is pending, processing or failed, inserting nothing;
\* for an uploaded video it inserts exactly one row, pending, with null audio
\* path, text, error and timestamps.  (For a call during which no other
\* request wrote to the store.)
C7_CreateTranslationJob ==
  [][Returns("createTranslationJob") /\ res'.alone =>
       LET video == FindById(videos, res'.input.video_id)
       IN IF video = NoRow
          THEN /\ res'.error.msg = "Video with ID ${id} not found"
               /\ res'.error.a = res'.input.video_id
               /\ translationJobs' = translationJobs
          ELSE IF video.upload_status \in {"pending", "processing", "failed"}
          THEN /\ res'.error.msg = "Video must be uploaded before creating translation job. Current status: ${status}"
               /\ res'.error.status = video.upload_status
               /\ translationJobs' = translationJobs
          ELSE /\ res'.error = NoError
               /\ OneRowInserted(translationJobs, translationJobs')
               /\ LET row == translationJobs'[Len(translationJobs')]
                  IN /\ row = res'.row
                     /\ row.video_id = res'.input.video_id
                     /\ row.status = "pending"
                     /\ row.original_audio_path = NULL
                     /\ row.translated_text = NULL
                     /\ row.error_message = NULL
                     /\ row.started_at = NULL
                     /\ row.completed_at = NULL]_vars

\* a call refused for a video still processing, an earlier job being there
C7_Witness ==
  /\ res.op = "createTranslationJob"
  /\ res.alone
  /\ res.error.status = "processing"
  /\ translationJobs # <<>>

\* C8: createAudioGenerationJob fails with a not-found error when the
\* translation job does not exist and with an invalid-state error naming the
\* actual status when it is pending, extracting_audio, translating or failed,
\* inserting nothing; otherwise it inserts exactly one row, pending, with
\* voice_cloned as given.  (For a call during which no other request wrote
\* to the store.)
C8_CreateAudioGenerationJob ==
  [][Returns("createAudioGenerationJob") /\ res'.alone =>
       LET translationJob ==
             FindById(translationJobs, res'.input.translation_job_id)
       IN IF translationJob = NoRow
          THEN /\ res'.error.msg = "Translation job with ID ${id} not found"
               /\ res'.error.a = res'.input.translation_job_id
               /\ audioGenerationJobs' = audioGenerationJobs
          ELSE IF translationJob.status \in
                    {"pending", "extracting_audio", "translating", "failed"}
          THEN /\ res'.error.msg = "Translation job must be completed before audio generation. Current status: ${status}"
               /\ res'.error.status = translationJob.status
               /\ audioGenerationJobs' = audioGenerationJobs
          ELSE /\ res'.error = NoError
               /\ OneRowInserted(audioGenerationJobs, audioGenerationJobs')
               /\ LET row == audioGenerationJobs'[Len(audioGenerationJobs')]
                  IN /\ row = res'.row
                     /\ row.translation_job_id = res'.input.translation_job_id
                     /\ row.status = "pending"
                     /\ row.voice_cloned = res'.input.voice_cloned]_vars

\* a call refused for a translation job still extracting audio, an earlier
\* audio generation job being there
C8_Witness ==
  /\ res.op = "createAudioGenerationJob"
  /\ res.alone
  /\ res.error.status = "extracting_audio"
  /\ audioGenerationJobs # <<>>

(***************************************************************************)
(* The checks of createFinalOutput, in the order of its description, each  *)
(* stated on the store by itself.                                          *)
(***************************************************************************)
CheckHolds(n, input) ==
  CASE n = 1 -> \E v \in Rows(videos) : v.id = input.video_id
    [] n = 2 -> \E v \in Rows(videos) :
                  v.id = input.video_id /\ v.upload_status = "uploaded"
    [] n = 3 -> \E t \in Rows(translationJobs) :
                  t.id = input.translation_job_id /\ t.video_id = input.video_id
    [] n = 4 -> \E t \in Rows(translationJobs) :
                  /\ t.id = input.translation_job_id
                  /\ t.video_id = input.video_id
                  /\ t.status = "completed"
    [] n = 5 -> \E a \in Rows(audioGenerationJobs) :
                  /\ a.id = input.audio_generation_job_id
                  /\ a.translation_job_id = input.translation_job_id
    [] n = 6 -> \E a \in Rows(audioGenerationJobs) :
                  /\ a.id = input.audio_generation_job_id
                  /\ a.translation_job_id = input.translation_job_id
                  /\ a.status = "completed"
    [] n = 7 -> ~\E f \in Rows(finalOutputs) :
                  /\ f.video_id = input.video_id
                  /\ f.translation_job_id = input.translation_job_id
                  /\ f.audio_generation_job_id = input.audio_generation_job_id

FailingChecks(input) == {n \in 1..7 : ~CheckHolds(n, input)}

SetMin(S) == CHOOSE x \in S : \A y \in S : x <= y

\* the error of a failing check
CheckError(n, input) ==
  CASE n = 1 -> Error("Video with id ${id} not found", input.video_id, 0, 0, "")
    [] n = 2 -> Error("Video with id ${id} is not uploaded (status: ${status})",
                      input.video_id, 0, 0,
                      videos[input.video_id].upload_status)
    [] n = 3 -> Error("Translation job with id ${id} not found for video ${video_id}",
                      input.translation_job_id, input.video_id, 0, "")
    [] n = 4 -> Error("Translation job with id ${id} is not completed (status: ${status})",
                      input.translation_job_id, 0, 0,
                      translationJobs[input.translation_job_id].status)
    [] n = 5 -> Error("Audio generation job with id ${id} not found for translation job ${translation_job_id}",
                      input.audio_generation_job_id, input.translation_job_id,
                      0, "")
    [] n = 6 -> Error("Audio generation job with id ${id} is not completed (status: ${status})",
                      input.audio_generation_job_id, 0, 0,
                      audioGenerationJobs[input.audio_generation_job_id].status)
    [] n = 7 -> Error("Final output already exists for video ${video_id}, translation job ${translation_job_id}, and audio generation job ${audio_generation_job_id}",
                      input.video_id, input.translation_job_id,
                      input.audio_generation_job_id, "")

\* C9: createFinalOutput checks, in this order, that the video exists, that
\* it is uploaded, that the translation job exists for the video, that it is
\* completed, that the audio generation job exists for the translation job,
\* that it is completed, and that no final output has the identical triple.
\* When checks fail, the error is that of the earliest failing one and no
\* final output is inserted; when none fails, one row is inserted.  (For a
\* call during which no other request wrote to the store.)
C9_EarliestFailingCheck ==
  [][Returns("createFinalOutput") /\ res'.alone =>
       LET failing == FailingChecks(res'.input)
       IN IF failing # {}
          THEN /\ res'.error = CheckError(SetMin(failing), res'.input)
               /\ finalOutputs' = finalOutputs
          ELSE /\ res'.error = NoError
               /\ OneRowInserted(finalOutputs, finalOutputs')]_vars

\* a call for a video not uploaded, with a translation job of another video
\* and an audio generation job that does not exist: checks 2, 3 and 5 fail
\* and the error is that of check 2
C9_Witness ==
  /\ res.op = "createFinalOutput"
  /\ res.alone
  /\ {2, 3, 5} \subseteq FailingChecks(res.input)
  /\ FindById(translationJobs, res.input.translation_job_id) # NoRow
  /\ res.error.msg = "Video with id ${id} is not uploaded (status: ${status})"

\* C10: a translation job id of another video's job is reported exactly like
\* the id of no translation job, and an audio generation job id of another
\* translation job's audio job exactly like the id of no audio job: the error
\* is determined by the ids given, whether or not such a foreign row exists.
C10_ForeignLikeAbsent ==
  res.op = "createFinalOutput" =>
    LET input == res.input
        foreignTranslationJob ==
          /\ FindById(translationJobs, input.translation_job_id) # NoRow
          /\ ~CheckHolds(3, input)
        foreignAudioJob ==
          /\ FindById(audioGenerationJobs, input.audio_generation_job_id) # NoRow
          /\ ~CheckHolds(5, input)
    IN /\ CheckHolds(2, input) /\ foreignTranslationJob =>
            res.error =
              Error("Translation job with id ${id} not found for video ${video_id}",
                    input.translation_job_id, input.video_id, 0, "")
       /\ CheckHolds(4, input) /\ CheckHolds(2, input) /\ foreignAudioJob =>
            res.error =
              Error("Audio generation job with id ${id} not found for translation job ${translation_job_id}",
                    input.audio_generation_job_id, input.translation_job_id,
                    0, "")

\* a call with a completed translation job of the video and the audio
\* generation job of another translation job
C10_Witness ==
  /\ res.op = "createFinalOutput"
  /\ CheckHolds(2, res.input)
  /\ CheckHolds(4, res.input)
  /\ FindById(audioGenerationJobs, res.input.audio_generation_job_id) # NoRow
  /\ ~CheckHolds(5, res.input)

\* a call with the translation job of another video
C10_WitnessTranslationJob ==
  /\ res.op = "createFinalOutput"
  /\ CheckHolds(2, res.input)
  /\ FindById(translationJobs, res.input.translation_job_id) # NoRow
  /\ ~CheckHolds(3, res.input)

(***************************************************************************)
(* Final outputs of one triple.                                            *)
(***************************************************************************)
ConflictError(input) == CheckError(7, input)

OutputsOfTriple(input) ==
  {i \in 1..Len(finalOutputs) :
     /\ finalOutputs[i].video_id = input.video_id
     /\ finalOutputs[i].translation_job_id = input.translation_job_id
     /\ finalOutputs[i].audio_generation_job_id = input.audio_generation_job_id}

\* C12: the uniqueness check is on the full triple only: when a final output
\* exists for the video, createFinalOutput for the same video with another
\* completed translation job and its completed audio generation job (a triple
\* without a final output so far) succeeds and adds a second final output row
\* for the video.  (For a call during which no other request wrote to the
\* store.)
C12_UniqueOnTripleOnly ==
  [][/\ Returns("createFinalOutput")
     /\ res'.alone
     /\ \A n \in 1..6 : CheckHolds(n, res'.input)
     /\ OutputsOfTriple(res'.input) = {}
     /\ \E f \in Rows(finalOutputs) :
          /\ f.video_id = res'.input.video_id
          /\ f.translation_job_id # res'.input.translation_job_id
          /\ f.audio_generation_job_id # res'.input.audio_generation_job_id
     => /\ res'.error = NoError
        /\ OneRowInserted(finalOutputs, finalOutputs')
        /\ finalOutputs'[Len(finalOutputs')] = res'.row
        /\ res'.row.video_id = res'.input.video_id
        /\ res'.row.translation_job_id = res'.input.translation_job_id
        /\ Cardinality({i \in 1..Len(finalOutputs') :
               finalOutputs'[i].video_id = res'.input.video_id}) = 2]_vars

\* a second final output of video 1, created from its other pipeline
C12_Witness ==
  /\ res.op = "createFinalOutput"
  /\ res.alone
  /\ res.error = NoError
  /\ Len(finalOutputs) = 2
  /\ finalOutputs[1].video_id = finalOutputs[2].video_id
  /\ finalOutputs[1].translation_job_id # finalOutputs[2].translation_job_id
  /\ finalOutputs[2] = res.row

ReferentiallyConsistent ==
  \A f \in Rows(finalOutputs) :
    /\ f.video_id \in 1..Len(videos)
    /\ f.translation_job_id \in 1..Len(translationJobs)
    /\ f.audio_generation_job_id \in 1..Len(audioGenerationJobs)
    /\ translationJobs[f.translation_job_id].video_id = f.video_id
    /\ audioGenerationJobs[f.audio_generation_job_id].translation_job_id =
         f.translation_job_id

\* no step changes the parent reference of a row there
ParentReferencesKept ==
  /\ \A i \in 1..Len(translationJobs) :
       translationJobs'[i].video_id = translationJobs[i].video_id
  /\ \A i \in 1..Len(audioGenerationJobs) :
       audioGenerationJobs'[i].translation_job_id =
         audioGenerationJobs[i].translation_job_id
  /\ \A i \in 1..Len(finalOutputs) : finalOutputs'[i] = finalOutputs[i]

\* C13: in every reachable state every final output is referentially
\* consistent: its video, translation job and audio generation job exist, its
\* translation job is a job of its video and its audio generation job is a
\* job of its translation job; and no handler changes the parent reference of
\* a row.
C13_ReferentiallyConsistent ==
  []ReferentiallyConsistent /\ [][ParentReferencesKept]_vars

\* a final output whose translation job has just been updated, another video
\* being there
C13_Witness ==
  /\ finalOutputs # <<>>
  /\ Len(videos) = 2
  /\ translationJobs[2].video_id = 2
  /\ res.op = "updateTranslationJob"
  /\ res.error = NoError
  /\ res.row.id = finalOutputs[1].translation_job_id
  /\ res.row.status = "failed"

\* a step of a getTranslationWorkflowStatus call: the handler is invoked and
\* suspended at its second select, a suspended call goes on to its next
\* select, or the call returns
StatusCallStep ==
  \/ Returns("getTranslationWorkflowStatus")
  \/ /\ Len(inFlight') = Len(inFlight) + 1
     /\ inFlight'[Len(inFlight')].op = "getTranslationWorkflowStatus"
  \/ /\ Len(inFlight') = Len(inFlight)
     /\ \E call \in Calls :
          /\ inFlight[call].op = "getTranslationWorkflowStatus"
          /\ inFlight'[call].pc # inFlight[call].pc

\* C14: getTranslationWorkflowStatus is read-only: for every videoId and
\* every store the four tables are the same before and after every step of
\* the call, whether the video is found or not.
C14_ReadOnly == [][StatusCallStep => store' = store]_vars

\* the answer for a video found, with a job of each kind and a final output
\* in the store
C14_Witness ==
  /\ Answered
  /\ res.video # NoRow
  /\ res.video.upload_status = "uploaded"
  /\ res.translationJob # NoRow
  /\ res.audioGenerationJob # NoRow
  /\ res.finalOutput # NoRow

\* the update changed, in the row of the id given, the fields given and
\* nothing else in the table
OnlyProvidedChanged(table, tableAfter, input, fields) ==
  /\ Len(tableAfter) = Len(table)
  /\ \A i \in 1..Len(table) :
       IF i # input.id
       THEN tableAfter[i] = table[i]
       ELSE /\ DOMAIN tableAfter[i] = DOMAIN table[i]
            /\ \A f \in DOMAIN table[i] :
                 tableAfter[i][f] =
                   IF f \in fields /\ input[f] = NULL THEN NULL
                   ELSE IF f \in fields /\ input[f] # UNDEFINED THEN input[f]
                   ELSE table[i][f]

\* C15: updateTranslationJob and updateAudioGenerationJob change only the
\* fields present in the input, in the row with the given id: a field given
\* as null becomes null, a field left out keeps its stored value; the id, the
\* parent reference, the languages, voice_cloned and created_at never change,
\* and no other row of any table changes.  A call that fails changes nothing.
C15_OnlyProvidedFields ==
  [][/\ Returns("updateTranslationJob") =>
          IF res'.error # NoError THEN store' = store
          ELSE /\ OnlyProvidedChanged(translationJobs, translationJobs',
                                      res'.input,
                                      {"status", "original_audio_path",
                                       "translated_text", "error_message",
                                       "started_at", "completed_at"})
               /\ res'.row = translationJobs'[res'.input.id]
               /\ UNCHANGED <<videos, audioGenerationJobs, finalOutputs>>
     /\ Returns("updateAudioGenerationJob") =>
          IF res'.error # NoError THEN store' = store
          ELSE /\ OnlyProvidedChanged(audioGenerationJobs, audioGenerationJobs',
                                      res'.input,
                                      {"status", "generated_audio_path",
                                       "error_message", "started_at",
                                       "completed_at"})
               /\ res'.row = audioGenerationJobs'[res'.input.id]
               /\ UNCHANGED <<videos, translationJobs, finalOutputs>>]_vars

\* an update that sets the audio path of translation job 1 to null and leaves
\* out the text, which keeps the value an earlier update gave it
C15_Witness ==
  /\ res.op = "updateTranslationJob"
  /\ res.error = NoError
  /\ res.input.original_audio_path = NULL
  /\ res.input.translated_text = UNDEFINED
  /\ translationJobs[1].original_audio_path = NULL
  /\ translationJobs[1].translated_text = "Texto traducido"
  /\ translationJobs[1].status = "completed"
  /\ translationJobs[1].target_language = "es"

\* the not-found error of an update handler
UpdateNotFound(op, id) ==
  CASE op = "updateVideoStatus" ->
         Error("Video with id ${id} not found", id, 0, 0, "")
    [] op = "updateTranslationJob" ->
         Error("Translation job with id ${id} not found", id, 0, 0, "")
    [] op = "updateAudioGenerationJob" ->
         Error("Audio generation job with id ${id} not found", id, 0, 0, "")

UpdatedTable(op) ==
  CASE op = "updateVideoStatus" -> videos
    [] op = "updateTranslationJob" -> translationJobs
    [] op = "updateAudioGenerationJob" -> audioGenerationJobs

\* C16: each update handler called with an id of no row fails with the
\* not-found error naming the id, returns no record and leaves the store
\* unchanged.
C16_UpdateNotFound ==
  [][/\ Idle
     /\ res'.op \in {"updateVideoStatus", "updateTranslationJob",
                      "updateAudioGenerationJob"}
     /\ res'.input.id \notin 1..Len(UpdatedTable(res'.op))
     => /\ res'.error = UpdateNotFound(res'.op, res'.input.id)
        /\ res'.row = NoRow
        /\ store' = store]_vars

\* C17: an updateVideoStatus call for a stored video persists its change:
\* after the call the stored upload_status is the status given, duration and
\* format change only when given, filename, original_filename, file_path and
\* file_size keep their values and no other row changes; so a field set by
\* one update and left out of the next keeps the value of the first.
C17_VideoStatusPersisted ==
  [][/\ Returns("updateVideoStatus")
     /\ res'.error = NoError
     /\ res'.input.id \in 1..Len(videos)
     => /\ OnlyProvidedChanged(videos, videos', res'.input,
                               {"upload_status", "duration", "format"})
        /\ videos'[res'.input.id].upload_status = res'.input.upload_status
        /\ \A f \in {"id", "filename", "original_filename", "file_path",
                      "file_size"} :
             videos'[res'.input.id][f] = videos[res'.input.id][f]
        /\ UNCHANGED <<translationJobs, audioGenerationJobs,
                       finalOutputs>>]_vars

\* C20: once the upload_status of a video is failed, no handler changes it: an
\* updateVideoStatus call for that video with status pending, processing or
\* uploaded does not take the video out of failed.
C20_FailedVideoStaysFailed ==
  [][\A i \in 1..Len(videos) :
       videos[i].upload_status = "failed" =>
         videos'[i].upload_status = "failed"]_vars

\* an updateVideoStatus call with status uploaded for a failed video has
\* returned a record with that status, while a translation job of another
\* video exists
C20_Witness ==
  /\ res.op = "updateVideoStatus"
  /\ res.error = NoError
  /\ res.input.upload_status = "uploaded"
  /\ res.row.upload_status = "uploaded"
  /\ FindById(videos, res.input.id) # NoRow
  /\ FindById(videos, res.input.id).upload_status = "failed"
  /\ translationJobs # <<>>

\* C18: in every reachable state, also those reached by interleaving the
\* awaits of several createFinalOutput calls for one triple, no two final
\* output rows have the same video, translation job and audio generation job.
C18_AtMostOnePerTriple ==
  \A r, q \in Rows(finalOutputs) :
    (/\ r.video_id = q.video_id
     /\ r.translation_job_id = q.translation_job_id
     /\ r.audio_generation_job_id = q.audio_generation_job_id) => r.id = q.id

\* C19: a step that inserts a final output row is taken in a state in which
\* the video of the row is uploaded and its translation job and its audio
\* generation job are completed, whatever status updates were served between
\* the awaits of the call.
C19_StatusesHoldAtInsert ==
  [][Len(finalOutputs') > Len(finalOutputs) =>
       LET row == finalOutputs'[Len(finalOutputs')]
       IN /\ FindById(videos, row.video_id).upload_status = "uploaded"
          /\ FindById(translationJobs, row.translation_job_id).status
               = "completed"
          /\ FindById(audioGenerationJobs, row.audio_generation_job_id).status
               = "completed"]_vars

\* C11 as stated: once a final output exists for a triple, every later
\* createFinalOutput call with that triple, served with no other request
\* writing to the store during it, fails with the conflict error and leaves
\* the store unchanged.
C11_AlwaysConflict ==
  [][/\ Returns("createFinalOutput")
     /\ res'.alone
     /\ OutputsOfTriple(res'.input) # {}
     => /\ res'.error = ConflictError(res'.input)
        /\ store' = store]_vars

\* C11, amended: once a final output exists for a triple, every later
\* createFinalOutput call with that triple, whatever its path, served with no
\* other request writing to the store during it, fails and leaves the store
\* unchanged, the rows of the triple keeping their paths; the error is the
\* conflict error when the video is still uploaded and both jobs are still
\* completed, and the error of the earliest failing check otherwise.
C11_DuplicateRejected ==
  [][/\ Returns("createFinalOutput")
     /\ res'.alone
     /\ OutputsOfTriple(res'.input) # {}
     => /\ res'.error # NoError
        /\ res'.row = NoRow
        /\ store' = store
        /\ res'.error = CheckError(SetMin(FailingChecks(res'.input)),
                                   res'.input)
        /\ (\A n \in 1..6 : CheckHolds(n, res'.input)) =>
             res'.error = ConflictError(res'.input)]_vars

\* a second call for a triple refused as a conflict, its path differing from
\* the path of the stored row
C11_Witness ==
  /\ res.op = "createFinalOutput"
  /\ res.alone
  /\ res.error = ConflictError(res.input)
  /\ \E i \in OutputsOfTriple(res.input) :
       finalOutputs[i].final_video_path # res.input.final_video_path

(***************************************************************************)
(* Retry after a failed translation.                                       *)
(***************************************************************************)
\* the video is uploaded, has no final output, and every answer the status
\* call may give is failed at 25: its most recent translation job is failed
FailedAtTranslation(videoId) ==
  /\ FindById(videos, videoId) # NoRow
  /\ FindById(videos, videoId).upload_status = "uploaded"
  /\ FinalOutputsOfVideo(videoId) = {}
  /\ \A r \in getTranslationWorkflowStatusResults(videoId) :
       /\ r.translationJob # NoRow
       /\ r.translationJob.status = "failed"
       /\ r.overallStatus = "failed"
       /\ r.progress = 25

\* C21: for an uploaded video without final output whose most recent
\* translation job is failed, createTranslationJob succeeds whatever sibling
\* jobs there are, appends one pending row and changes no other row, and the
\* status call that follows answers translating at 50.  (For calls during
\* which no other request writes to the store.)
C21_RetryAfterFailure ==
  [][\A videoId \in 1..MaxPerTable :
       (/\ Returns("createTranslationJob")
        /\ res'.alone
        /\ res'.input.video_id = videoId
        /\ FailedAtTranslation(videoId)) =>
         /\ res'.error = NoError
         /\ OneRowInserted(translationJobs, translationJobs')
         /\ translationJobs'[Len(translationJobs')].status = "pending"
         /\ UNCHANGED <<videos, audioGenerationJobs, finalOutputs>>
         /\ \A r \in getTranslationWorkflowStatusResults(videoId)' :
              /\ r.overallStatus = "translating"
              /\ r.progress = 50]_vars

(***************************************************************************)
(* Pagination of the list handlers.                                        *)
(***************************************************************************)
\* the rows matching the filter of a list call, and the pages the call may
\* return at another offset
Matching(op, input) ==
  IF op = "getVideos" THEN getVideosConditions(input)
  ELSE getTranslationJobsConditions(input)

PagesAt(op, input, offset) ==
  IF op = "getVideos"
  THEN getVideosResults([input EXCEPT !.offset = offset])
  ELSE getTranslationJobsResults([input EXCEPT !.offset = offset])

\* the page sequences (limit, 0), (limit, limit), ... that successive calls
\* may return, the page of the answered call being one of them
PageSweeps(op, input, rows) ==
  {pages \in [0..MaxListed -> UNION {PagesAt(op, input, k * input.limit) :
                                       k \in 0..MaxListed}] :
     /\ \A k \in 0..MaxListed :
          pages[k] \in PagesAt(op, input, k * input.limit)
     /\ \A k \in 0..MaxListed :
          k * input.limit = input.offset => pages[k] = rows}

PageOrdered(page, limit) ==
  /\ Len(page) <= limit
  /\ \A i, j \in 1..Len(page) :
       i < j => page[i].created_at >= page[j].created_at

\* every matching row is on exactly one page, at exactly one position
ListedOnce(pages, rows) ==
  \A r \in rows :
    Cardinality({<<k, i>> \in (0..MaxListed) \X (1..MaxLimit) :
                   i <= Len(pages[k]) /\ pages[k][i] = r}) = 1

\* C22: on an unchanged store and with a fixed filter, the pages of getVideos
\* and of getTranslationJobs at the offsets 0, limit, 2 * limit, ... have at
\* most limit rows each in descending created_at, are pairwise disjoint and
\* list every matching row exactly once, also when rows share a created_at.
C22_PagesPartition ==
  (/\ res.op \in {"getVideos", "getTranslationJobs"}
   /\ res.input.offset % res.input.limit = 0) =>
    \A pages \in PageSweeps(res.op, res.input, res.rows) :
      /\ \A k \in 0..MaxListed : PageOrdered(pages[k], res.input.limit)
      /\ ListedOnce(pages, Matching(res.op, res.input))

(***************************************************************************)
(* The status call among concurrent writers.                               *)
(***************************************************************************)
\* C23: what a getTranslationWorkflowStatus call served concurrently with
\* create and update handlers returns is what the call returns on the store
\* of one instant between its beginning and its end.
C23_SnapshotConsistent ==
  [][\A call \in Calls :
       (/\ Suspended(call, "getTranslationWorkflowStatus", "finalOutput")
        /\ res'.op = "getTranslationWorkflowStatus"
        /\ inFlight' = Remove(call))
       => Result(res') \in inFlight[call].instants]_vars

(***************************************************************************)
(* The completed status over time.                                         *)
(***************************************************************************)
\* a video keeps its row and every final output it has
OutputsKept ==
  \A videoId \in 1..MaxPerTable :
    /\ FindById(videos, videoId) # NoRow => FindById(videos', videoId) # NoRow
    /\ FinalOutputsOfVideo(videoId) \subseteq FinalOutputsOfVideo(videoId)'

\* C24: completed is absorbing.  The status call answers completed exactly
\* when the video has a final output, then with progress 100, and no step of
\* a create or update handler takes a final output or a video away: once
\* completed was answered for a video, every later answer for it is completed
\* with progress 100.
C24_CompletedAbsorbing ==
  /\ [](Answered /\ res.video # NoRow =>
          /\ res.overallStatus = "completed" <=>
               FinalOutputsOfVideo(res.videoId) # {}
          /\ res.overallStatus = "completed" => res.progress = 100)
  /\ [][OutputsKept]_vars

\* completed answered after a further translation job of the video was
\* created and set to failed, the audio generation job of the first final
\* output was set to failed and a further final output was created: the
\* latest translation job is the new one, without audio generation job
C24_Witness ==
  /\ Answered
  /\ res.overallStatus = "completed"
  /\ res.progress = 100
  /\ res.translationJob.id = 2
  /\ res.translationJob.status = "failed"
  /\ res.audioGenerationJob = NoRow
  /\ audioGenerationJobs[1].status = "failed"
  /\ Len(finalOutputs) = 2

(***************************************************************************)
(* The fallback of the status derivation.                                  *)
(***************************************************************************)
\* C25: with statuses of the declared enums calculateWorkflowStatus never
\* returns its fallback (not_started, 0): every combination of a video, a
\* translation job, an audio generation job and a final output, the last
\* three possibly absent, matches one of the rows 1 to 10.  Progress 0 is
\* returned only as failed for a video whose upload failed, and by
\* getTranslationWorkflowStatus besides that only for a video that does not
\* exist.
C25_FallbackUnreachable ==
  /\ res.op = "calculateWorkflowStatus" =>
       /\ res.result # Status("not_started", 0)
       /\ FirstMatchingRow(res.video, res.translationJob,
                           res.audioGenerationJob, res.finalOutput) \in 1..10
       /\ res.result.progress = 0 =>
            /\ res.result.overallStatus = "failed"
            /\ res.video.upload_status = "failed"
  /\ Answered /\ res.progress = 0 =>
       \/ res.video = NoRow
       \/ /\ res.overallStatus = "failed"
          /\ res.video.upload_status = "failed"

\* the status call answers failed with progress 0 for a video whose upload
\* failed while its jobs are completed
C25_Witness ==
  /\ Answered
  /\ res.progress = 0
  /\ res.overallStatus = "failed"
  /\ res.video.upload_status = "failed"
  /\ StatusOf(res.translationJob) = "completed"
  /\ StatusOf(res.audioGenerationJob) = "completed"
  /\ res.finalOutput = NoRow

(***************************************************************************)
(* Progress over a run without failures.                                   *)
(***************************************************************************)
uploadPipeline == <<"pending", "processing", "uploaded">>

translationPipeline ==
  <<"pending", "extracting_audio", "translating", "completed">>

audioGenerationPipeline == <<"pending", "generating", "completed">>

\* the place of a status in its pipeline; failed has none
Place(pipeline, status) ==
  IF \E i \in 1..Len(pipeline) : pipeline[i] = status
  THEN CHOOSE i \in 1..Len(pipeline) : pipeline[i] = status
  ELSE 0

NoneFailed(table, pipeline, column) ==
  \A i \in 1..Len(table) : Place(pipeline, table[i][column]) > 0

\* every row of the table keeps its place in the pipeline or moves on
Advancing(table, tableAfter, pipeline, column) ==
  \A i \in 1..Len(table) :
    Place(pipeline, table[i][column]) <= Place(pipeline, tableAfter[i][column])

\* a step of a run in which no status is failed and none moves back
NonFailingStep ==
  /\ NoneFailed(videos, uploadPipeline, "upload_status")
  /\ NoneFailed(videos', uploadPipeline, "upload_status")
  /\ NoneFailed(translationJobs, translationPipeline, "status")
  /\ NoneFailed(translationJobs', translationPipeline, "status")
  /\ NoneFailed(audioGenerationJobs, audioGenerationPipeline, "status")
  /\ NoneFailed(audioGenerationJobs', audioGenerationPipeline, "status")
  /\ Advancing(videos, videos', uploadPipeline, "upload_status")
  /\ Advancing(translationJobs, translationJobs', translationPipeline, "status")
  /\ Advancing(audioGenerationJobs, audioGenerationJobs',
               audioGenerationPipeline, "status")

\* the progress a status call may answer for the video on the store, when no
\* other request writes to the store during the call
ProgressOf(videoId) ==
  {r.progress : r \in getTranslationWorkflowStatusResults(videoId)}

\* no answer after the step is below an answer before it
ProgressKept ==
  \A videoId \in 1..MaxPerTable :
    \A before \in ProgressOf(videoId) :
      \A after \in ProgressOf(videoId)' : before <= after

\* a video has at most one translation job and a translation job at most one
\* audio generation job
SingleJobs ==
  /\ \A r, q \in Rows(translationJobs) : r.video_id = q.video_id => r = q
  /\ \A r, q \in Rows(audioGenerationJobs) :
       r.translation_job_id = q.translation_job_id => r = q

\* C26 as stated: over handler operations that set no status to failed and
\* move no status back in its pipeline, the progress answered for a video by
\* successive status calls never decreases.
C26_ProgressMonotone ==
  []AnswersOfStore /\ [][NonFailingStep => ProgressKept]_vars

\* C26: over handler operations that set no status to failed, move no status
\* back in its pipeline and create no second translation job of a video and
\* no second audio generation job of a translation job, the progress answered
\* for a video by successive status calls never decreases.
C26_ProgressMonotoneSingleJobs ==
  []AnswersOfStore /\ [][SingleJobs' /\ NonFailingStep => ProgressKept]_vars

\* the only audio generation job of the only translation job of a video has
\* been completed, nothing failed: progress 95
C26_Witness ==
  /\ res.op = "updateAudioGenerationJob"
  /\ res.error = NoError
  /\ res.row.status = "completed"
  /\ SingleJobs
  /\ NoneFailed(videos, uploadPipeline, "upload_status")
  /\ NoneFailed(translationJobs, translationPipeline, "status")
  /\ NoneFailed(audioGenerationJobs, audioGenerationPipeline, "status")
  /\ ProgressOf(1) = {95}

(***************************************************************************)
(* The components of an answer.                                            *)
(***************************************************************************)
\* C27 as stated: in an answer of getTranslationWorkflowStatus the audio
\* generation job, when there is one, is a job of the translation job
\* returned, and the final output, when there is one beside a translation
\* job, references the translation job and the audio generation job returned
\* (for a call during which no other request wrote to the store).
C27_OnePipeline ==
  AnsweredAlone =>
    /\ res.audioGenerationJob # NoRow =>
         res.audioGenerationJob.translation_job_id = res.translationJob.id
    /\ res.finalOutput # NoRow /\ res.translationJob # NoRow =>
         /\ res.finalOutput.translation_job_id = res.translationJob.id
         /\ res.finalOutput.audio_generation_job_id = res.audioGenerationJob.id

\* C27: in an answer of getTranslationWorkflowStatus the translation job is a
\* job of the video and the audio generation job one of that translation
\* job; the final output is one of the video and references a translation
\* job of the video and an audio generation job of that job, which need not
\* be the jobs returned.
C27_ComponentsOfVideo ==
  Answered /\ res.video # NoRow =>
    /\ res.translationJob # NoRow =>
         res.translationJob.video_id = res.video.id
    /\ res.audioGenerationJob # NoRow =>
         /\ res.translationJob # NoRow
         /\ res.audioGenerationJob.translation_job_id = res.translationJob.id
    /\ res.finalOutput # NoRow =>
         /\ res.finalOutput.video_id = res.video.id
         /\ FindById(translationJobs,
                     res.finalOutput.translation_job_id).video_id
              = res.video.id
         /\ FindById(audioGenerationJobs,
                     res.finalOutput.audio_generation_job_id).translation_job_id
              = res.finalOutput.translation_job_id

\* an answer whose final output references an earlier translation job than
\* the one returned, whose audio generation job is returned
C27_Witness ==
  /\ AnsweredAlone
  /\ res.finalOutput # NoRow
  /\ res.translationJob # NoRow
  /\ res.finalOutput.translation_job_id # res.translationJob.id
  /\ res.audioGenerationJob # NoRow
  /\ res.finalOutput.audio_generation_job_id # res.audioGenerationJob.id
  /\ res.translationJob.created_at
       > FindById(translationJobs, res.finalOutput.translation_job_id).created_at

(***************************************************************************)
(* startTranslation of the client.                                         *)
(***************************************************************************)
\* startTranslation has ended in its error state after createTranslationJob
\* had returned a job
EndedInError(component) ==
  /\ component.pc = "idle"
  /\ component.error = "Failed to start translation process. Please try again."
  /\ component.translationJob # NoRow

\* a createAudioGenerationJob call has passed its checks in this step and is
\* suspended at its insert
AudioJobCallSuspended ==
  /\ Len(inFlight') = Len(inFlight) + 1
  /\ inFlight'[Len(inFlight')].op = "createAudioGenerationJob"

\* createAudioGenerationJob is called for the job createTranslationJob has
\* just returned and is rejected unless that job has been completed
AudioJobCalledForNewJob ==
  /\ res'.op = "createAudioGenerationJob"
       /\ res.op # "createAudioGenerationJob" =>
       /\ res'.input.translation_job_id = inFlight[1].translationJob.id
       /\ res'.error # NoError =>
            /\ FindById(translationJobs,
                        res'.input.translation_job_id).status # "completed"
            /\ audioGenerationJobs' = audioGenerationJobs
       /\ res'.error = NoError =>
            /\ Len(audioGenerationJobs') = Len(audioGenerationJobs) + 1
            /\ res'.row.translation_job_id = res'.input.translation_job_id
  /\ AudioJobCallSuspended =>
       LET input == inFlight'[Len(inFlight')].input
       IN /\ input.translation_job_id = inFlight[1].translationJob.id
          /\ FindById(translationJobs, input.translation_job_id).status
               = "completed"
  /\ Len(audioGenerationJobs') > Len(audioGenerationJobs) =>
       \E call \in Calls :
         Suspended(call, "createAudioGenerationJob", "insert")

\* after the error state the job is there, not completed by the client, and
\* has no audio generation job
JobLeftWithoutAudio ==
  EndedInError(inFlight[1]) =>
    /\ FindById(translationJobs, inFlight[1].translationJob.id) # NoRow
    /\ AudioJobsOfTranslationJob(inFlight[1].translationJob.id) = {}

\* C28 as stated: startTranslation calls createAudioGenerationJob right
\* after createTranslationJob has returned the pending job; the call is
\* rejected unless the job was completed in between, the flow ends in its
\* error state with the job persisted and no audio generation job, and
\* canStartTranslation is false from then on.
C28_StartTranslationFails ==
  /\ [](/\ JobLeftWithoutAudio
        /\ EndedInError(inFlight[1]) => ~canStartTranslation(inFlight[1]))
  /\ [][AudioJobCalledForNewJob]_vars

\* C28: as above, and canStartTranslation is false for every workflow status
\* loaded after the flow has ended, with overallStatus translating while the
\* jobs of the video are pending; until the component loads the status again
\* it keeps the one loaded before.
C28_StartTranslationFailsReloaded ==
  /\ [](/\ JobLeftWithoutAudio
        /\ EndedInError(inFlight[1]) =>
             \A status \in getTranslationWorkflowStatusResults(
                             inFlight[1].videoId) :
               /\ ~canStartTranslation(
                     [inFlight[1] EXCEPT !.workflowStatus = status])
               /\ (\A r \in Rows(translationJobs) : r.status = "pending") =>
                    status.overallStatus = "translating")
  /\ [][AudioJobCalledForNewJob]_vars

\* the flow has ended in its error state, the job is pending without audio
\* generation job, and the component still holds the status loaded before
C28_Witness ==
  /\ EndedInError(inFlight[1])
  /\ FindById(translationJobs, inFlight[1].translationJob.id).status = "pending"
  /\ AudioJobsOfTranslationJob(inFlight[1].translationJob.id) = {}
  /\ canStartTranslation(inFlight[1])

(***************************************************************************)
(* Parents of audio generation jobs and of final outputs.                  *)
(***************************************************************************)
ParentOf(audioGenerationJob) ==
  FindById(translationJobs, audioGenerationJob.translation_job_id)

\* C29 as stated: in every state each audio generation job has a completed
\* translation job, and each final output references a completed translation
\* job and a completed audio generation job; no update moves a parent out of
\* completed while it has dependents.
C29_ParentsStayCompleted ==
  /\ \A a \in Rows(audioGenerationJobs) : ParentOf(a).status = "completed"
  /\ \A o \in Rows(finalOutputs) :
       /\ FindById(translationJobs, o.translation_job_id).status = "completed"
       /\ FindById(audioGenerationJobs, o.audio_generation_job_id).status
            = "completed"

\* the call that inserts a row in this step
Inserting(op, call) ==
  /\ Suspended(call, op, "insert")
  /\ inFlight' = Disturbed(Remove(call))

\* a call has passed the checks of a parent in this step
Passed(op, call, pc) ==
  /\ inFlight[call].op = op
  /\ Len(inFlight') = Len(inFlight)
  /\ inFlight'[call].pc = pc
  /\ inFlight[call].pc # pc

\* C29: the translation job of an audio generation job was completed when the
\* createAudioGenerationJob call that inserts it selected it, and the
\* translation job and the audio generation job of a final output were
\* completed when the createFinalOutput call that inserts it selected them;
\* the rows inserted stay, with their references, whatever status their
\* parents are given afterwards.
C29_ParentsCompletedAtCreation ==
  [][/\ AudioJobCallSuspended =>
          ParentOf(inFlight'[Len(inFlight')].input).status = "completed"
     /\ Len(audioGenerationJobs') > Len(audioGenerationJobs) =>
          \E call \in Calls :
            /\ Inserting("createAudioGenerationJob", call)
            /\ audioGenerationJobs'[Len(audioGenerationJobs')]
                 .translation_job_id
                 = inFlight[call].input.translation_job_id
     /\ \A call \in Calls :
          /\ Passed("createFinalOutput", call, "audioGenerationJob") =>
               FindById(translationJobs,
                        inFlight[call].input.translation_job_id).status
                 = "completed"
          /\ Passed("createFinalOutput", call, "existingOutput") =>
               LET a == FindById(audioGenerationJobs,
                                 inFlight[call].input.audio_generation_job_id)
               IN /\ a.status = "completed"
                  /\ a.translation_job_id
                       = inFlight[call].input.translation_job_id
          /\ Passed("createFinalOutput", call, "insert") =>
               inFlight[call].pc = "existingOutput"
     /\ Len(finalOutputs') > Len(finalOutputs) =>
          \E call \in Calls :
            /\ Inserting("createFinalOutput", call)
            /\ finalOutputs'[Len(finalOutputs')].translation_job_id
                 = inFlight[call].input.translation_job_id
            /\ finalOutputs'[Len(finalOutputs')].audio_generation_job_id
                 = inFlight[call].input.audio_generation_job_id
     /\ \A i \in 1..Len(audioGenerationJobs) :
          /\ i <= Len(audioGenerationJobs')
          /\ audioGenerationJobs'[i].translation_job_id
               = audioGenerationJobs[i].translation_job_id
     /\ \A i \in 1..Len(finalOutputs) :
          /\ i <= Len(finalOutputs')
          /\ finalOutputs'[i] = finalOutputs[i]]_vars

\* a final output whose translation job and whose audio generation job have
\* been given the status failed after its creation
C29_Witness ==
  \E o \in Rows(finalOutputs) :
    /\ FindById(translationJobs, o.translation_job_id).status = "failed"
    /\ FindById(audioGenerationJobs, o.audio_generation_job_id).status
         = "failed"
    /\ ParentOf(FindById(audioGenerationJobs,
                         o.audio_generation_job_id)).id = o.translation_job_id

(***************************************************************************)
(* The final output of a video through the two handlers.                   *)
(***************************************************************************)
\* C30: the row getFinalOutputByVideoId returns for a video is the
\* finalOutput of every result of getTranslationWorkflowStatus for the video
\* on the same store: both null or both the same row.
C30_SameFinalOutput ==
  [][Returns("getFinalOutputByVideoId") =>
       \A status \in getTranslationWorkflowStatusResults(res'.videoId) :
         status.finalOutput = res'.row]_vars

====
